---------------------------- MODULE Spec2Model ----------------------------
(***************************************************************************)
(* Model of the claude-esp ingestion core (internal/watcher, poll mode,    *)
(* and internal/parser): session discovery, position-tracked file tailing, *)
(* the history-skip policy, the output channels and cancellation.          *)
(*                                                                         *)
(* A log file is a sequence of tokens.  One token stands for one byte or   *)
(* one run of bytes of the JSONL text, and offsets count tokens:           *)
(*    "\n"              the newline byte                                    *)
(*    "{" "}"           the braces that open and close a JSON record        *)
(*    "a" "u" "s"       "type":"assistant" / "user" / any other kind        *)
(*    "@a1" "@a2"       "agentId":"a1" / "a2" (optional)                    *)
(*    "T" "X" "U" "R" "?"   a content block of type thinking, text,         *)
(*                      tool_use, tool_result, or an unknown type           *)
(*    any other token   the string payload of the block before it ("" is    *)
(*                      the empty string; for "U" and "R" it is the tool id)*)
(*    "M"               a tool_result block whose "content" is an array of  *)
(*                      typed sub-blocks; its payload names the array       *)
(*    "!"               a "message" value that is valid JSON but does not   *)
(*                      decode into the message structure ("message":"x",   *)
(*                      or "content":"plain text")                          *)
(* A record is well-formed JSON iff it reads "{" type [agent] (block       *)
(* payload)* "}" or "{" type [agent] "!" "}"; a proper prefix or suffix of *)
(* a record is never well-formed, as for JSON objects.                     *)
(***************************************************************************)
EXTENDS Integers, Sequences, FiniteSets, TLC

(***************************************************************************)
(* Bounds of the model (not program values).                               *)
(***************************************************************************)
\* lines the producer appends to one file while the watcher runs
MaxLines == 2
\* how many of those lines may be written in two parts
MaxSplit == 1
\* how many more ticks watchLoop's select may choose once the context is
\* cancelled (the choice between ready cases is random)
MaxLateTicks == 1
\* capacity of the Items channel in the model (ItemChannelBuffer scaled down)
ItemsCap == 2
\* capacity of the Errors / NewAgent / NewSession / NewBackgroundTask
\* channels in the model (ErrorChannelBuffer scaled down)
NotifyCap == 1
\* how often the user removes one session
MaxRemoves == 1
\* ScannerMaxBufferSize, the longest token (newline included) the scanner of
\* readFile buffers, scaled from 1 MB to tokens; every record the producer
\* writes fits
ScannerMaxBufferSize == 9
\* the deliveries after which the producer no longer deletes a log file
MaxSent == 3
\* the debounce tasks that can be alive at once
MaxTasks == 2
\* the notifications the file system queues before the watch loop receives
MaxEvents == 2

(***************************************************************************)
(* Program constants.                                                      *)
(***************************************************************************)
AutoSkipLineThreshold == 100
KeepRecentLines == 10

(***************************************************************************)
(* Identities.  A log path is <<session id, agent id>>; the agent id ""    *)
(* is the session's main file.  A tool-results artifact is <<session id,   *)
(* tool id>>.                                                              *)
(***************************************************************************)
SessionIds == {"s1", "s2", "s3"}
AgentIds == {"a1", "a2"}
ToolIds == {"t1", "t2"}
LogPaths == SessionIds \X ({""} \cup AgentIds)
ToolPaths == SessionIds \X ToolIds

MainFile(s) == <<s, "">>
AgentFile(s, a) == <<s, a>>

NL == "\n"
TypeTokens == {"a", "u", "s"}
AgentTokens == {"@a1", "@a2"}
KindTokens == {"T", "X", "U", "R", "M", "?"}
Whitespace == {" "}
BadMessage == "!"
Structural == {NL, "{", "}", BadMessage} \cup TypeTokens \cup AgentTokens
                 \cup KindTokens \cup Whitespace

(***************************************************************************)
(* Small helpers on sequences.                                             *)
(***************************************************************************)
Contains(line, tok) == \E i \in 1..Len(line) : line[i] = tok

\* index of the first newline of s in lo..hi, 0 when there is none
FirstNL(s, lo, hi) ==
    IF \E j \in lo..hi : s[j] = NL
    THEN CHOOSE j \in lo..hi : s[j] = NL /\ \A i \in lo..(j - 1) : s[i] # NL
    ELSE 0

\* the positions of the newlines of s at or after from
NewlinesFrom(s, from) == {j \in from..Len(s) : s[j] = NL}

\* the positions just after each newline of s, in increasing order (a
\* position is the number of tokens up to and including the newline)
NewlineEnds(s, from) ==
    LET P == NewlinesFrom(s, from)
    IN  [i \in 1..Cardinality(P) |->
            CHOOSE j \in P : Cardinality({q \in P : q <= j}) = i]

(***************************************************************************)
(* internal/parser (src/unnamed/part_001)                                  *)
(***************************************************************************)
AgentOfToken(t) == IF t = "@a1" THEN "a1" ELSE "a2"

\* fmt.Sprintf("Agent-%s", id[:min(7, len(id))]); the model's ids are
\* shorter than 7 characters, so the prefix is the id itself
AgentName(aid) == IF aid = "" THEN <<"Main">> ELSE <<"Agent-", aid>>

\* line == "", without the TrimSpace
C27_IsBlankEmptyOnly(line) == line = <<>>

\* strings.TrimSpace(line) == ""
IsBlank(line) == \A i \in 1..Len(line) : line[i] \in Whitespace

HasAgent(line) == Len(line) >= 4 /\ line[3] \in AgentTokens
Body(line) == SubSeq(line, IF HasAgent(line) THEN 4 ELSE 3, Len(line) - 1)

\* json.Unmarshal(line, &raw) succeeds
ValidJSON(line) ==
    /\ Len(line) >= 3
    /\ line[1] = "{"
    /\ line[Len(line)] = "}"
    /\ line[2] \in TypeTokens
    /\ \/ Body(line) = <<BadMessage>>
       \/ /\ Len(Body(line)) % 2 = 0
          /\ \A i \in 1..Len(Body(line)) :
                IF i % 2 = 1 THEN Body(line)[i] \in KindTokens
                             ELSE Body(line)[i] \notin Structural

\* the RawMessage a valid line decodes to
Unmarshal(line) ==
    [type    |-> line[2],
     agentId |-> IF HasAgent(line) THEN AgentOfToken(line[3]) ELSE "",
     bad     |-> Body(line) = <<BadMessage>>,
     content |-> [i \in 1..(Len(Body(line)) \div 2) |->
                     [type |-> Body(line)[2 * i - 1], text |-> Body(line)[2 * i]]]]

Item(typ, raw, text) ==
    [type |-> typ, sid |-> "", aid |-> raw.agentId,
     name |-> AgentName(raw.agentId), content |-> text]

RECURSIVE AssistantItems(_, _)
AssistantItems(raw, blocks) ==
    IF blocks = <<>> THEN <<>>
    ELSE LET b == Head(blocks)
             here == CASE b.type = "T" /\ b.text # "" -> <<Item("thinking", raw, b.text)>>
                       [] b.type = "X" /\ b.text # "" -> <<Item("text", raw, b.text)>>
                       [] b.type = "U" -> <<Item("tool_input", raw, b.text)>>
                       [] OTHER -> <<>>
         IN here \o AssistantItems(raw, Tail(blocks))

\* a parseAssistantMessage without the tests for an empty thinking or text
C26_ParseAssistantKeepsEmpty(raw) ==
    IF raw.bad THEN <<>>
    ELSE LET kept == SelectSeq(raw.content, LAMBDA b : b.type \in {"T", "X", "U"})
         IN  [i \in 1..Len(kept) |->
                 Item(CASE kept[i].type = "T" -> "thinking"
                        [] kept[i].type = "X" -> "text"
                        [] OTHER -> "tool_input", raw, kept[i].text)]

\* if err := json.Unmarshal(raw.Message, &msg); err != nil { return nil }
parseAssistantMessage(raw) ==
    IF raw.bad THEN <<>> ELSE AssistantItems(raw, raw.content)

RECURSIVE UserItems(_, _)
UserItems(raw, blocks) ==
    IF blocks = <<>> THEN <<>>
    ELSE LET b == Head(blocks)
             here == IF b.type = "R" THEN <<Item("tool_output", raw, b.text)>>
                     ELSE <<>>
         IN here \o UserItems(raw, Tail(blocks))

\* if err := json.Unmarshal(raw.Message, ...); err != nil { return nil }:
\* ToolResult.Content is a string, so a result whose content is an array
\* fails the decoding of the whole message
parseUserMessage(raw) ==
    IF raw.bad \/ \E i \in 1..Len(raw.content) : raw.content[i].type = "M"
    THEN <<>>
    ELSE UserItems(raw, raw.content)

\* a ParseLine that returns no error for a line that is not JSON
C19_ParseLineSilent(line) ==
    IF IsBlank(line) \/ ~ValidJSON(line) THEN [items |-> <<>>, err |-> FALSE]
    ELSE LET raw == Unmarshal(line)
         IN [items |-> CASE raw.type = "a" -> parseAssistantMessage(raw)
                         [] raw.type = "u" -> parseUserMessage(raw)
                         [] OTHER -> <<>>,
             err |-> FALSE]

\* a ParseLine that rejects a record whose type is not assistant or user
C29_ParseLineStrict(line) ==
    IF IsBlank(line) THEN [items |-> <<>>, err |-> FALSE]
    ELSE IF ~ValidJSON(line) THEN [items |-> <<>>, err |-> TRUE]
    ELSE LET raw == Unmarshal(line)
         IN [items |-> CASE raw.type = "a" -> parseAssistantMessage(raw)
                         [] raw.type = "u" -> parseUserMessage(raw)
                         [] OTHER -> <<>>,
             err |-> raw.type \notin {"a", "u"}]

\* ParseLine: the items of a line and whether it is a parse error
ParseLine(line) ==
    IF IsBlank(line) THEN [items |-> <<>>, err |-> FALSE]
    ELSE IF ~ValidJSON(line) THEN [items |-> <<>>, err |-> TRUE]
    ELSE LET raw == Unmarshal(line)
         IN [items |-> CASE raw.type = "a" -> parseAssistantMessage(raw)
                         [] raw.type = "u" -> parseUserMessage(raw)
                         [] OTHER -> <<>>,
             err |-> FALSE]

(***************************************************************************)
(* bufio.Scanner with the default ScanLines split function, as readFile    *)
(* uses it.  One Scan() call on a file whose bytes scanPos+1..readPos are  *)
(* buffered: a buffered line is returned first; otherwise the file is read *)
(* to its current end, and when that brings no newline the read hits EOF   *)
(* and ScanLines returns the rest, a line without a newline, as the final  *)
(* token.  readPos is the position of the file descriptor.  The buffer     *)
(* holds the bytes after scanPos and grows to ScannerMaxBufferSize; when   *)
(* the file holds that many bytes after scanPos and no newline among them, *)
(* the buffer fills, Scan() returns false with ErrTooLong and the          *)
(* descriptor stands after the last byte buffered.                         *)
(***************************************************************************)
Scan(content, scanPos, readPos, eof) ==
    LET inBuf == FirstNL(content, scanPos + 1, readPos)
        size  == Len(content)
        inNew == FirstNL(content, scanPos + 1, size)
        full  == scanPos + ScannerMaxBufferSize
    IN  IF ~eof /\ size >= full /\ (inNew = 0 \/ inNew > full)
        THEN [more |-> FALSE, tok |-> <<>>,
              scanPos |-> scanPos, readPos |-> full, eof |-> FALSE, whole |-> TRUE,
              err |-> TRUE]
        ELSE IF inBuf # 0
        THEN [more |-> TRUE, tok |-> SubSeq(content, scanPos + 1, inBuf - 1),
              scanPos |-> inBuf, readPos |-> readPos, eof |-> eof, whole |-> TRUE,
              err |-> FALSE]
        ELSE IF eof
        THEN [more |-> FALSE, tok |-> <<>>,
              scanPos |-> scanPos, readPos |-> readPos, eof |-> TRUE, whole |-> TRUE,
              err |-> FALSE]
        ELSE IF inNew # 0
        THEN [more |-> TRUE, tok |-> SubSeq(content, scanPos + 1, inNew - 1),
              scanPos |-> inNew, readPos |-> size, eof |-> FALSE, whole |-> TRUE,
              err |-> FALSE]
        ELSE IF scanPos < size
        THEN [more |-> TRUE, tok |-> SubSeq(content, scanPos + 1, size),
              scanPos |-> size, readPos |-> size, eof |-> TRUE, whole |-> FALSE,
              err |-> FALSE]
        ELSE [more |-> FALSE, tok |-> <<>>,
              scanPos |-> scanPos,
              readPos |-> IF readPos > size THEN readPos ELSE size,
              eof |-> TRUE, whole |-> TRUE, err |-> FALSE]

\* every token a scanner yields over a whole file, first to last
RECURSIVE ScanAll(_, _)
ScanAll(content, from) ==
    LET j == FirstNL(content, from, Len(content))
    IN  IF j # 0 THEN <<SubSeq(content, from, j - 1)>> \o ScanAll(content, j + 1)
        ELSE IF from <= Len(content) THEN <<SubSeq(content, from, Len(content))>>
        ELSE <<>>

VARIABLES
    disk,           \* log path -> content (a sequence of tokens)
    present,        \* the log paths that exist
    tools,          \* the tool-results artifacts that exist
    stale,          \* sessions whose main file was last modified before the active window
    inflight,       \* log path -> the rest of the line the producer is writing
    sessions,       \* w.sessions: the ids in the registry
    subagents,      \* session id -> Session.Subagents (agent ids; the path is AgentFile)
    bgTasks,        \* session id -> Session.BackgroundTasks (tool id -> task)
    filePositions,  \* w.filePositions: log path -> offset, for the recorded paths
    Items, Errors, NewAgent, NewSession, NewBackgroundTask,   \* the channels
    ctxDone,        \* w.ctx is cancelled
    watchActive,    \* w.watchActive (auto-discovery)
    skipHistory,    \* w.skipHistory
    pc,             \* where the watch-loop goroutine is
    phase,          \* "skip" / "read": the initial pass; "tick": a poll tick
    sessTodo,       \* sessions of the snapshot still to visit
    cur,            \* the session being visited
    lateTicks,      \* ticks watchLoop's select chose after the cancellation
    fileTodo,       \* subagents of readSessionFiles' snapshot still to read
    rf,             \* readFile's locals
    sent,           \* history: every item put on Items, in order
    partialParsed,  \* history: a line without its newline was handed to ParseLine
    lastRead,       \* history: log path -> how the last readFile of it ended
    dropped,        \* history: the channels on which a send was dropped
    mode,           \* history: what initializeSessionReading decided
    autoAtTick,     \* history: w.watchActive as the last handlePollTick loaded it
    inserts,        \* history: artifact -> how often a BackgroundTask was inserted for it
    sessionID,      \* the argument of New
    removed,        \* session id -> how often RemoveSession was called for it
    received,       \* the notifications the presentation layer has received
    hpc,            \* where the push-event handler task is
    htool,          \* the artifact the push-event handler is at
    call,           \* the pure function called on its own: arguments and result
    events,         \* w.fsWatcher.Events: the notifications not yet received
    fileContexts,   \* w.fileContexts: the log paths registered for write events
    debounceTimers, \* w.debounceTimers: log path -> the state of its timer
    tasks,          \* the debounce tasks: task number -> readFile's locals
    notified,       \* what the file system has raised notifications for
    pushed,         \* history: per log path, the timers armed and fired
    goroutines,     \* goroutine -> the function it runs, its position, its local
    locks,          \* lock -> its writer, its readers and the readers it blocks
    registered      \* history: the inserts and notifications of the new session

fsVars    == <<disk, present, tools, stale, inflight>>
regVars   == <<sessions, subagents, bgTasks>>
noteVars  == <<Errors, NewAgent, NewSession, NewBackgroundTask>>
flagVars  == <<ctxDone, watchActive, skipHistory>>
loopVars  == <<pc, phase, sessTodo, cur, lateTicks, fileTodo, rf>>
histVars  == <<sent, partialParsed, lastRead, dropped, mode, autoAtTick, inserts>>
pureVars  == <<call>>
pushVars  == <<events, fileContexts, debounceTimers, tasks, notified, pushed>>
lockVars  == <<goroutines, locks, registered>>
ctlVars   == <<sessionID, removed, received, hpc, htool, pureVars, pushVars,
               lockVars>>
vars == <<fsVars, regVars, filePositions, Items, noteVars, flagVars, loopVars,
          histVars, ctlVars>>

NoRead == [path |-> <<"", "">>, open |-> FALSE, scanPos |-> 0, readPos |-> 0,
           eof |-> FALSE, items |-> <<>>, startOff |-> 0, nEv |-> 0, nErr |-> 0]

\* no pure function has been called on its own
NoCall == call = [fn |-> "none"]

\* no watch is registered, no notification is queued, no timer is armed and
\* no debounce task runs; the file system has nothing to notify
NoTask == [state |-> "free", path |-> <<"", "">>, open |-> FALSE, scanPos |-> 0,
           readPos |-> 0, eof |-> FALSE, items |-> <<>>]

PushIdle ==
    /\ events = <<>>
    /\ fileContexts = {}
    /\ debounceTimers = <<>>
    /\ tasks = [i \in 1..MaxTasks |-> NoTask]
    /\ notified = [len |-> [p \in LogPaths |-> Len(disk[p])],
                   made |-> present \cup tools]
    /\ pushed = [p \in LogPaths |-> [notes |-> 0, bursts |-> 0, fires |-> 0]]

\* the goroutines that share the watcher: the watch loop, a second discovery
\* pass or push-event handler, and the presentation layer calling in
Goroutines == {"loop", "handler", "ui"}

\* w.sessionsMu, w.filePosMu and the mu of the session s1
LockNames == {"sessionsMu", "filePosMu", "mu"}

\* a sync.RWMutex nobody holds or waits for
Unlocked == [writer |-> "", active |-> FALSE, readers |-> {}, blocked |-> {}]

\* a goroutine that is in none of the watcher's functions
Returned == [fn |-> "", ip |-> 0, exists |-> FALSE]

\* every goroutine is outside the watcher and every lock is free
LockIdle ==
    /\ goroutines = [g \in Goroutines |-> Returned]
    /\ locks = [l \in LockNames |-> Unlocked]
    /\ registered = [ins |-> 0, notes |-> 0]

\* the always-zero seek position
C3_PosZero(path) == 0

\* pos, exists := w.filePositions[path]; if exists { file.Seek(pos, 0) }
Pos(path) == IF path \in DOMAIN filePositions THEN filePositions[path] ELSE 0

\* the agent files of session s on disk (os.ReadDir of its subagents directory)
AgentsOnDisk(s) == {a \in AgentIds : AgentFile(s, a) \in present}

(***************************************************************************)
(* Background-task correlation (pure parts).                               *)
(***************************************************************************)
\* findToolInFile: "" or the display name of the tool_use line that holds
\* toolID.  extractToolNameFromLine matches on the "type":"tool_use" and
\* "name":"..." substrings; formatToolName's label is kept abstract.
findToolInFile(path, toolID) ==
    IF path \notin present THEN ""
    ELSE IF \E i \in 1..Len(ScanAll(disk[path], 1)) :
               /\ Contains(ScanAll(disk[path], 1)[i], toolID)
               /\ Contains(ScanAll(disk[path], 1)[i], "U")
         THEN "Tool"
         ELSE ""

\* findBackgroundTaskParent: the possible results (the subagent map is
\* ranged over in Go's unspecified map order)
findBackgroundTaskParent(s, toolID) ==
    IF findToolInFile(MainFile(s), toolID) # ""
    THEN {[parent |-> "", name |-> findToolInFile(MainFile(s), toolID)]}
    ELSE IF \E a \in subagents[s] : findToolInFile(AgentFile(s, a), toolID) # ""
    THEN {[parent |-> a, name |-> findToolInFile(AgentFile(s, a), toolID)] :
             a \in {b \in subagents[s] : findToolInFile(AgentFile(s, b), toolID) # ""}}
    ELSE {[parent |-> "", name |-> "Background Task"]}

fileContainsToolResult(path, toolID) ==
    /\ path \in present
    /\ \E i \in 1..Len(ScanAll(disk[path], 1)) :
          /\ Contains(ScanAll(disk[path], 1)[i], toolID)
          /\ Contains(ScanAll(disk[path], 1)[i], "R")

isBackgroundTaskComplete(s, toolID) ==
    \/ fileContainsToolResult(MainFile(s), toolID)
    \/ \E a \in subagents[s] : fileContainsToolResult(AgentFile(s, a), toolID)

(***************************************************************************)
(* History skip (pure parts).                                              *)
(***************************************************************************)
\* countFileLines: the newline bytes of a file, 0 when it cannot be opened
countFileLines(path) ==
    IF path \in present THEN Cardinality(NewlinesFrom(disk[path], 1)) ELSE 0

RECURSIVE SumLines(_)
SumLines(paths) ==
    IF paths = {} THEN 0
    ELSE LET p == CHOOSE q \in paths : TRUE
         IN countFileLines(p) + SumLines(paths \ {p})

FilesOf(s) == {MainFile(s)} \cup {AgentFile(s, a) : a \in subagents[s]}

countTotalLines(ss) == SumLines(UNION {FilesOf(s) : s \in ss})

\* findPositionForLastNLines: newlinePositions[len(newlinePositions)-n]
\* (0-based) once the file has more than n newlines, else 0
findPositionForLastNLines(path, n) ==
    IF path \notin present THEN 0
    ELSE LET ends == NewlineEnds(disk[path], 1)
         IN IF Len(ends) <= n THEN 0 ELSE ends[Len(ends) - n + 1]

(***************************************************************************)
(* The watch-loop goroutine.  pc is its place:                             *)
(*   idle          Start() not yet called                                  *)
(*   init          watchLoop, before initializeSessionReading              *)
(*   skip_files    skipToEndOfFiles(cur)                                   *)
(*   select        the select of watchLoop                                 *)
(*   walk          checkForNewSessions, at a main file not in the registry *)
(*   check_agents  checkForNewSubagents(cur), at an unknown agent file     *)
(*   check_tasks   checkForBackgroundTasks(cur), at an untracked artifact  *)
(*   scan          readFile(rf.path): os.Open and Seek when rf.open is     *)
(*                 FALSE, then scanner.Scan()                              *)
(*   send          readFile: the select that sends Head(rf.items)          *)
(*   stopped       watchLoop has returned                                  *)
(* A directory entry that changes nothing (a known session, agent or task, *)
(* a stale file) is passed over within the step before it.                 *)
(***************************************************************************)
\* what checkForNewSessions, checkForNewSubagents and
\* checkForBackgroundTasks would add
SessionsNew == {s \in SessionIds : MainFile(s) \in present /\ s \notin stale
                                     /\ s \notin sessions}
AgentsNew(s) == AgentsOnDisk(s) \ subagents[s]
TasksNew(s) == {t \in ToolIds : <<s, t>> \in tools /\ t \notin DOMAIN bgTasks[s]}

\* after checkForNewSubagents(s) found nothing more
AfterAgents(s) == IF TasksNew(s) # {} THEN "check_tasks" ELSE "scan"

FirstPc(ph, s) == CASE ph = "skip" -> "skip_files"
                    [] ph = "read" -> "scan"
                    [] OTHER -> IF AgentsNew(s) # {} THEN "check_agents"
                                ELSE AfterAgents(s)

\* the range over the sessions snapshot moves on (any order: a Go map)
NextSession(todo, ph) ==
    IF todo = {}
    THEN pc' = "select" /\ sessTodo' = {} /\ cur' = cur /\ rf' = NoRead
    ELSE \E s \in todo :
            /\ sessTodo' = todo \ {s}
            /\ cur' = s
            /\ pc' = FirstPc(ph, s)
            /\ rf' = [NoRead EXCEPT !.path = MainFile(s)]

\* readFile has returned to readSessionFiles: after the main file the
\* subagent map is copied, then each copy is read (any order: a Go map)
ReturnFromRead ==
    LET todo == IF rf.path[2] = "" THEN subagents[cur] ELSE fileTodo
    IN  IF todo = {}
        THEN fileTodo' = {} /\ NextSession(sessTodo, phase)
        ELSE \E a \in todo :
                /\ fileTodo' = todo \ {a}
                /\ rf' = [NoRead EXCEPT !.path = AgentFile(cur, a)]
                /\ pc' = "scan"
                /\ UNCHANGED <<sessTodo, cur>>

\* a send without the default arm: ready only when the channel has room
C10_NotifyWaits(ch) == Len(ch) < NotifyCap

\* select { case ch <- msg: default: } has an arm that is ready whatever
\* the channel holds
CanNotify(ch) == TRUE

\* select { case ch <- msg: default: }
TrySend(ch, msg) == IF Len(ch) < NotifyCap THEN Append(ch, msg) ELSE ch
Drops(ch, name) == IF Len(ch) < NotifyCap THEN dropped ELSE dropped \cup {name}

\* Watcher.Start: go w.watchLoop()
Start ==
    /\ pc = "idle"
    /\ pc' = "init"
    /\ UNCHANGED <<fsVars, regVars, filePositions, Items, noteVars, flagVars,
                   phase, sessTodo, cur, lateTicks, fileTodo, rf, histVars, ctlVars>>

\* a Stop() that can be called only once
C9_StopOnce ==
    /\ ~ctxDone
    /\ ctxDone' = TRUE
    /\ UNCHANGED <<fsVars, regVars, filePositions, Items, noteVars,
                   watchActive, skipHistory, loopVars, histVars, ctlVars>>

\* Watcher.Stop: w.cancel()
Stop ==
    /\ ctxDone' = TRUE
    /\ UNCHANGED <<fsVars, regVars, filePositions, Items, noteVars,
                   watchActive, skipHistory, loopVars, histVars, ctlVars>>

\* a RemoveSession that also forgets the offsets of the session's files
C39_RemoveForgetsOffsets(s) ==
    /\ s \in sessions
    /\ removed[s] < MaxRemoves
    /\ sessions' = sessions \ {s}
    /\ removed' = [removed EXCEPT ![s] = @ + 1]
    /\ filePositions' = [p \in {q \in DOMAIN filePositions : q[1] # s} |->
                            filePositions[p]]
    /\ UNCHANGED <<fsVars, subagents, bgTasks, Items, noteVars,
                   flagVars, loopVars, histVars, sessionID, received, hpc, htool,
                   pureVars, lockVars, pushVars>>

\* Watcher.RemoveSession(s): delete(w.sessions, s) under the write lock (for
\* an id that is not in the map the call changes nothing)
RemoveSession(s) ==
    /\ s \in sessions
    /\ removed[s] < MaxRemoves
    /\ sessions' = sessions \ {s}
    /\ removed' = [removed EXCEPT ![s] = @ + 1]
    /\ UNCHANGED <<fsVars, subagents, bgTasks, filePositions, Items, noteVars,
                   flagVars, loopVars, histVars, sessionID, received, hpc, htool,
                   pureVars, lockVars, pushVars>>

\* Watcher.ToggleAutoDiscovery
ToggleAutoDiscovery ==
    /\ watchActive' = ~watchActive
    /\ UNCHANGED <<fsVars, regVars, filePositions, Items, noteVars, ctxDone,
                   skipHistory, loopVars, histVars, ctlVars>>

\* the threshold itself already skips
C6_SkipAtThreshold(totalLines) == skipHistory \/ totalLines >= AutoSkipLineThreshold

\* shouldSkip := skipHistory || totalLines > AutoSkipLineThreshold
shouldSkip(totalLines) == skipHistory \/ totalLines > AutoSkipLineThreshold

\* watchLoop's first statement: initializeSessionReading(getSessionsSnapshot())
InitializeSessionReading ==
    /\ pc = "init"
    /\ LET ph == IF shouldSkip(countTotalLines(sessions)) THEN "skip" ELSE "read"
       IN  /\ phase' = ph
           /\ mode' = ph
           /\ NextSession(sessions, ph)
    /\ UNCHANGED <<fsVars, regVars, filePositions, Items, noteVars, flagVars,
                   lateTicks, fileTodo, sent, partialParsed, lastRead, dropped, autoAtTick, inserts, ctlVars>>

\* skipToEndOfFiles(cur)
SkipToEndOfFiles ==
    /\ pc = "skip_files"
    /\ filePositions' =
          [p \in DOMAIN filePositions \cup FilesOf(cur) |->
              IF p \in FilesOf(cur)
              THEN findPositionForLastNLines(p, KeepRecentLines)
              ELSE filePositions[p]]
    /\ NextSession(sessTodo, phase)
    /\ UNCHANGED <<fsVars, regVars, Items, noteVars, flagVars,
                   phase, lateTicks, fileTodo, histVars, ctlVars>>

\* watchLoop: case <-w.ctx.Done(): return
LoopExit ==
    /\ pc = "select"
    /\ ctxDone
    /\ pc' = "stopped"
    /\ UNCHANGED <<fsVars, regVars, filePositions, Items, noteVars, flagVars,
                   phase, sessTodo, cur, lateTicks, fileTodo, rf, histVars, ctlVars>>

\* a cleanup that also expires the sessions whose main file is inactive
C13_CleanupExpires ==
    /\ pc = "select"
    /\ filePositions' = [p \in DOMAIN filePositions \cap present |-> filePositions[p]]
    /\ sessions' = sessions \ stale
    /\ UNCHANGED <<fsVars, subagents, bgTasks, Items, noteVars, flagVars, loopVars,
                   histVars, ctlVars>>

\* a cleanup that empties the offset table
C36_CleanupForgetsAll ==
    /\ pc = "select"
    /\ filePositions' = <<>>
    /\ UNCHANGED <<fsVars, regVars, Items, noteVars, flagVars, loopVars, histVars, ctlVars>>

\* watchLoop: case <-cleanupTicker.C: cleanupFilePositions()
CleanupFilePositions ==
    /\ pc = "select"
    /\ filePositions' = [p \in DOMAIN filePositions \cap present |-> filePositions[p]]
    /\ UNCHANGED <<fsVars, regVars, Items, noteVars, flagVars, loopVars, histVars, ctlVars>>

\* a tick that runs session discovery whatever w.watchActive holds
C14_TickIgnoresFlag ==
    /\ pc = "select"
    /\ ctxDone => lateTicks < MaxLateTicks
    /\ lateTicks' = IF ctxDone THEN lateTicks + 1 ELSE lateTicks
    /\ phase' = "tick"
    /\ IF ~ctxDone /\ SessionsNew # {}
       THEN pc' = "walk" /\ UNCHANGED <<sessTodo, cur, rf>>
       ELSE NextSession(sessions, "tick")
    /\ autoAtTick' = watchActive
    /\ UNCHANGED <<fsVars, regVars, filePositions, Items, noteVars, flagVars,
                   fileTodo, sent, partialParsed, lastRead, dropped, mode,
                   inserts, ctlVars>>

\* watchLoop: case <-ticker.C: handlePollTick(), up to the first directory
\* entry that adds something
HandlePollTick ==
    /\ pc = "select"
    /\ ctxDone => lateTicks < MaxLateTicks
    /\ lateTicks' = IF ctxDone THEN lateTicks + 1 ELSE lateTicks
    /\ phase' = "tick"
    /\ IF watchActive /\ ~ctxDone /\ SessionsNew # {}
       THEN pc' = "walk" /\ UNCHANGED <<sessTodo, cur, rf>>
       ELSE NextSession(sessions, "tick")
    /\ autoAtTick' = watchActive
    /\ UNCHANGED <<fsVars, regVars, filePositions, Items, noteVars, flagVars,
                   fileTodo, sent, partialParsed, lastRead, dropped, mode,
                   inserts, ctlVars>>

\* checkForNewSessions: the walk is at a main session file that is recent
\* and not in the registry, or it ends (on cancellation: filepath.SkipAll)
\* and handlePollTick takes the sessions snapshot
CheckForNewSessions ==
    /\ pc = "walk"
    /\ IF ctxDone \/ SessionsNew = {}
       THEN /\ NextSession(sessions, "tick")
            /\ UNCHANGED <<regVars, NewSession, dropped>>
       ELSE \E s \in SessionsNew :
            /\ CanNotify(NewSession)
            /\ sessions' = sessions \cup {s}
            /\ subagents' = [subagents EXCEPT ![s] = AgentsOnDisk(s)]
            /\ bgTasks' = [bgTasks EXCEPT ![s] = <<>>]
            /\ NewSession' = TrySend(NewSession, [sid |-> s])
            /\ dropped' = Drops(NewSession, "NewSession")
            /\ UNCHANGED <<pc, sessTodo, cur, rf>>
    /\ UNCHANGED <<fsVars, filePositions, Items, Errors, NewAgent,
                   NewBackgroundTask, flagVars, phase, lateTicks, fileTodo,
                   sent, partialParsed, lastRead, mode, autoAtTick, inserts, ctlVars>>

\* a checkForNewSubagents that, when the initial pass skipped, also skips
\* the file it finds
C40_DiscoverySkips ==
    /\ pc = "check_agents"
    /\ IF AgentsNew(cur) = {}
       THEN pc' = AfterAgents(cur) /\ UNCHANGED <<subagents, NewAgent, dropped, filePositions>>
       ELSE \E a \in AgentsNew(cur) :
               /\ CanNotify(NewAgent)
               /\ subagents' = [subagents EXCEPT ![cur] = @ \cup {a}]
               /\ filePositions' =
                     IF mode = "skip"
                     THEN (AgentFile(cur, a) :> Len(disk[AgentFile(cur, a)])) @@ filePositions
                     ELSE filePositions
               /\ NewAgent' = TrySend(NewAgent, [sid |-> cur, aid |-> a])
               /\ dropped' = Drops(NewAgent, "NewAgent")
               /\ pc' = IF AgentsNew(cur) = {a} THEN AfterAgents(cur) ELSE pc
    /\ UNCHANGED <<fsVars, sessions, bgTasks, Items, Errors,
                   NewSession, NewBackgroundTask, flagVars,
                   phase, sessTodo, cur, lateTicks, fileTodo, rf,
                   sent, partialParsed, lastRead, mode, autoAtTick, inserts, ctlVars>>

\* checkForNewSubagents(cur) at an agent file that is not in the map
CheckForNewSubagents ==
    /\ pc = "check_agents"
    /\ IF AgentsNew(cur) = {}
       THEN pc' = AfterAgents(cur) /\ UNCHANGED <<subagents, NewAgent, dropped>>
       ELSE \E a \in AgentsNew(cur) :
               /\ CanNotify(NewAgent)
               /\ subagents' = [subagents EXCEPT ![cur] = @ \cup {a}]
               /\ NewAgent' = TrySend(NewAgent, [sid |-> cur, aid |-> a])
               /\ dropped' = Drops(NewAgent, "NewAgent")
               /\ pc' = IF AgentsNew(cur) = {a} THEN AfterAgents(cur) ELSE pc
    /\ UNCHANGED <<fsVars, sessions, bgTasks, filePositions, Items, Errors,
                   NewSession, NewBackgroundTask, flagVars,
                   phase, sessTodo, cur, lateTicks, fileTodo, rf,
                   sent, partialParsed, lastRead, mode, autoAtTick, inserts, ctlVars>>

\* a correlation pass that rebuilds the tasks it already tracks from the
\* zero value
C16_RescanResets ==
    /\ pc = "check_tasks"
    /\ IF TasksNew(cur) = {}
       THEN pc' = "scan" /\ UNCHANGED <<bgTasks, NewBackgroundTask, dropped, inserts>>
       ELSE \E t \in TasksNew(cur) : \E r \in findBackgroundTaskParent(cur, t) :
               LET done == isBackgroundTaskComplete(cur, t)
               IN  /\ CanNotify(NewBackgroundTask)
                   /\ bgTasks' = [bgTasks EXCEPT ![cur] =
                                     (t :> [parent |-> r.parent, name |-> r.name,
                                            complete |-> done])
                                     @@ [u \in DOMAIN @ |-> [@[u] EXCEPT !.complete = FALSE]]]
                   /\ NewBackgroundTask' =
                         TrySend(NewBackgroundTask,
                                 [sid |-> cur, tool |-> t, parent |-> r.parent,
                                  name |-> r.name, complete |-> done])
                   /\ dropped' = Drops(NewBackgroundTask, "NewBackgroundTask")
                   /\ inserts' = [inserts EXCEPT ![<<cur, t>>] = @ + 1]
                   /\ pc' = IF TasksNew(cur) = {t} THEN "scan" ELSE pc
    /\ UNCHANGED <<fsVars, sessions, subagents, filePositions, Items, Errors,
                   NewAgent, NewSession, flagVars,
                   phase, sessTodo, cur, lateTicks, fileTodo, rf,
                   sent, partialParsed, lastRead, mode, autoAtTick, ctlVars>>

\* checkForBackgroundTasks(cur) at an artifact that is not in the map; after
\* the last one readSessionFiles(cur) begins
CheckForBackgroundTasks ==
    /\ pc = "check_tasks"
    /\ IF TasksNew(cur) = {}
       THEN pc' = "scan" /\ UNCHANGED <<bgTasks, NewBackgroundTask, dropped, inserts>>
       ELSE \E t \in TasksNew(cur) : \E r \in findBackgroundTaskParent(cur, t) :
               LET done == isBackgroundTaskComplete(cur, t)
               IN  /\ CanNotify(NewBackgroundTask)
                   /\ bgTasks' = [bgTasks EXCEPT ![cur] =
                                     (t :> [parent |-> r.parent, name |-> r.name,
                                            complete |-> done]) @@ @]
                   /\ NewBackgroundTask' =
                         TrySend(NewBackgroundTask,
                                 [sid |-> cur, tool |-> t, parent |-> r.parent,
                                  name |-> r.name, complete |-> done])
                   /\ dropped' = Drops(NewBackgroundTask, "NewBackgroundTask")
                   /\ inserts' = [inserts EXCEPT ![<<cur, t>>] = @ + 1]
                   /\ pc' = IF TasksNew(cur) = {t} THEN "scan" ELSE pc
    /\ UNCHANGED <<fsVars, sessions, subagents, filePositions, Items, Errors,
                   NewAgent, NewSession, flagVars,
                   phase, sessTodo, cur, lateTicks, fileTodo, rf,
                   sent, partialParsed, lastRead, mode, autoAtTick, ctlVars>>

(***************************************************************************)
(* readFile(rf.path, cur, agent id of rf.path)                             *)
(***************************************************************************)
\* item.SessionID = sessionID; the agent id and name from the context when
\* the record carries none
Stamp(it, path) ==
    [it EXCEPT !.sid = path[1],
               !.aid = IF path[2] # "" /\ it.aid = "" THEN path[2] ELSE @,
               !.name = IF path[2] # "" /\ it.aid = "" THEN AgentName(path[2]) ELSE @]

StampAll(items, path) == [i \in 1..Len(items) |-> Stamp(items[i], path)]

\* the offset recorded is the start of the file
C4_NewPosZero(r) == 0

\* the offset recorded is one past the descriptor's position
C5_NewPosPast(r) == r.readPos + 1

\* the offset recorded is the end of the last line the scanner yielded
C21_NewPosAtLine(r) == r.scanPos

\* newPos, _ := file.Seek(0, 1): the descriptor's position after the scan
NewPos(r) == r.readPos

\* readFile's select without its ctx.Done() arm
C8_NeverAbandon == FALSE

\* the arm case <-w.ctx.Done() of readFile's select is ready
CanAbandon == ctxDone

\* one scanner.Scan(), after os.Open and Seek when it is the first of this
\* readFile: the next line is parsed (an error is offered to Errors), or the
\* scan is over, scanner.Err() is offered to Errors when there is one, and
\* the position is recorded
ScanLine ==
    /\ pc = "scan"
    /\ IF ~rf.open /\ rf.path \notin present
       THEN /\ ReturnFromRead
            /\ UNCHANGED <<filePositions, Errors, partialParsed, lastRead, dropped>>
       ELSE
       LET from == IF rf.open THEN rf.scanPos ELSE Pos(rf.path)
           upto == IF rf.open THEN rf.readPos ELSE Pos(rf.path)
           r == Scan(disk[rf.path], from, upto, rf.eof)
           parsed == ParseLine(r.tok)
           after == [rf EXCEPT !.open = TRUE, !.scanPos = r.scanPos,
                               !.readPos = r.readPos, !.eof = r.eof,
                               !.startOff = IF rf.open THEN @ ELSE from]
       IN  IF ~r.more
           THEN /\ filePositions' = (rf.path :> NewPos(r)) @@ filePositions
                /\ lastRead' = [lastRead EXCEPT ![rf.path] =
                                   [obs |-> r.readPos, done |-> TRUE]]
                /\ ReturnFromRead
                /\ Errors' = IF r.err THEN TrySend(Errors, "scanner error")
                                      ELSE Errors
                /\ dropped' = IF r.err THEN Drops(Errors, "Errors") ELSE dropped
                /\ UNCHANGED partialParsed
           ELSE /\ partialParsed' = (partialParsed \/ ~r.whole)
                /\ UNCHANGED <<filePositions, lastRead, sessTodo, cur, fileTodo>>
                /\ IF parsed.err
                   THEN /\ CanNotify(Errors)
                        /\ Errors' = TrySend(Errors, "failed to parse JSON")
                        /\ dropped' = Drops(Errors, "Errors")
                        /\ rf' = [after EXCEPT !.nErr = @ + 1]
                        /\ pc' = "scan"
                   ELSE /\ rf' = [after EXCEPT !.items = StampAll(parsed.items, rf.path)]
                        /\ pc' = IF parsed.items = <<>> THEN "scan" ELSE "send"
                        /\ UNCHANGED <<Errors, dropped>>
    /\ UNCHANGED <<fsVars, regVars, Items, NewAgent, NewSession, NewBackgroundTask,
                   flagVars, phase, lateTicks, sent, mode, autoAtTick, inserts, ctlVars>>

\* select { case w.Items <- item: ... }: the send arm
SendItem ==
    /\ pc = "send"
    /\ Len(Items) < ItemsCap
    /\ Items' = Append(Items, Head(rf.items))
    /\ sent' = Append(sent, Head(rf.items))
    /\ rf' = [rf EXCEPT !.items = Tail(@), !.nEv = @ + 1]
    /\ pc' = IF Tail(rf.items) = <<>> THEN "scan" ELSE "send"
    /\ UNCHANGED <<fsVars, regVars, filePositions, noteVars, flagVars,
                   phase, sessTodo, cur, lateTicks, fileTodo,
                   partialParsed, lastRead, dropped, mode, autoAtTick, inserts, ctlVars>>

\* a readFile that records the descriptor's position when it abandons
C38_AbandonRecords ==
    /\ pc = "send"
    /\ CanAbandon
    /\ filePositions' = (rf.path :> rf.readPos) @@ filePositions
    /\ lastRead' = [lastRead EXCEPT ![rf.path] =
                       [obs |-> rf.readPos, done |-> FALSE]]
    /\ ReturnFromRead
    /\ UNCHANGED <<fsVars, regVars, Items, noteVars, flagVars,
                   phase, lateTicks, sent, partialParsed, dropped, mode, autoAtTick, inserts, ctlVars>>

\* select { ... case <-w.ctx.Done(): return }: readFile returns without
\* recording a position
AbandonSend ==
    /\ pc = "send"
    /\ CanAbandon
    /\ lastRead' = [lastRead EXCEPT ![rf.path] =
                       [obs |-> rf.readPos, done |-> FALSE]]
    /\ ReturnFromRead
    /\ UNCHANGED <<fsVars, regVars, filePositions, Items, noteVars, flagVars,
                   phase, lateTicks, sent, partialParsed, dropped, mode, autoAtTick, inserts, ctlVars>>

\* the steps of the initial pass when history is read, and of a poll tick
\* that finds nothing new on disk
Tailing ==
    \/ InitializeSessionReading
    \/ LoopExit
    \/ CleanupFilePositions
    \/ HandlePollTick
    \/ ScanLine
    \/ SendItem
    \/ AbandonSend

(***************************************************************************)
(* The environment: the producer that appends to the log files and creates *)
(* new ones, and the presentation layer that drains the channels.          *)
(***************************************************************************)
CompleteLines(path) == Cardinality(NewlinesFrom(disk[path], 1))

\* the record the producer writes as line k of a file: an assistant record
\* with a thinking and a text block; the payload names the line, so that
\* every item tells its source line
Record(k) == <<"{", "a", "T", ToString(k), "X", ToString(k), "}">>

\* where the producer may cut a line into two writes: after its first
\* token, or between the record and its newline
Cuts(rec) == {1, Len(rec)}

\* the producer appends the first `cut` tokens of its next line
Write(path, cut) ==
    LET line == Record(CompleteLines(path) + 1) \o <<NL>>
    IN  /\ path \in present
        /\ inflight[path] = <<>>
        /\ CompleteLines(path) < MaxLines
        /\ disk' = [disk EXCEPT ![path] = @ \o SubSeq(line, 1, cut)]
        /\ inflight' = [inflight EXCEPT ![path] = SubSeq(line, cut + 1, Len(line))]
        /\ stale' = IF path[2] = "" THEN stale \ {path[1]} ELSE stale
        /\ UNCHANGED <<present, tools, regVars, filePositions, Items, noteVars,
                       flagVars, loopVars, histVars, ctlVars>>

WriteLine(path) == Write(path, Len(Record(1)) + 1)

\* only the first MaxSplit lines of a file are written in two parts
WriteFirstPart(path) ==
    /\ CompleteLines(path) < MaxSplit
    /\ \E cut \in Cuts(Record(1)) : Write(path, cut)

\* the producer appends the rest of the line it began
WriteRest(path) ==
    /\ inflight[path] # <<>>
    /\ disk' = [disk EXCEPT ![path] = @ \o inflight[path]]
    /\ inflight' = [inflight EXCEPT ![path] = <<>>]
    /\ UNCHANGED <<present, tools, stale, regVars, filePositions, Items, noteVars,
                   flagVars, loopVars, histVars, ctlVars>>

\* the presentation layer receives from Items
Consume ==
    /\ Items # <<>>
    /\ Items' = Tail(Items)
    /\ UNCHANGED <<fsVars, regVars, filePositions, noteVars, flagVars,
                   loopVars, histVars, ctlVars>>

(***************************************************************************)
(* The state after New("") found the sessions `known` on a disk holding    *)
(* `files` (log path -> content) and `arts` (artifacts).                   *)
(***************************************************************************)
Constructed(files, arts, known, auto, skip) ==
    /\ disk = [p \in LogPaths |-> IF p \in DOMAIN files THEN files[p] ELSE <<>>]
    /\ present = DOMAIN files
    /\ tools = arts
    /\ stale = {}
    /\ inflight = [p \in LogPaths |-> <<>>]
    /\ sessions = known
    /\ subagents = [s \in SessionIds |->
                       IF s \in known
                       THEN {a \in AgentIds : AgentFile(s, a) \in DOMAIN files}
                       ELSE {}]
    /\ bgTasks = [s \in SessionIds |-> <<>>]
    /\ filePositions = <<>>
    /\ Items = <<>> /\ Errors = <<>> /\ NewAgent = <<>>
    /\ NewSession = <<>> /\ NewBackgroundTask = <<>>
    /\ ctxDone = FALSE
    /\ watchActive = auto
    /\ skipHistory = skip
    /\ pc = "idle" /\ phase = "read" /\ sessTodo = {} /\ cur = "s1"
    /\ lateTicks = 0 /\ fileTodo = {} /\ rf = NoRead
    /\ sent = <<>>
    /\ partialParsed = FALSE
    /\ lastRead = [p \in LogPaths |-> [obs |-> -1, done |-> FALSE]]
    /\ dropped = {}
    /\ mode = "none"
    /\ autoAtTick = auto
    /\ inserts = [tp \in ToolPaths |-> 0]
    /\ sessionID = ""
    /\ removed = [s \in SessionIds |-> 0]
    /\ received = {}
    /\ hpc = "idle" /\ htool = ""
    /\ NoCall
    /\ PushIdle
    /\ LockIdle

(***************************************************************************)
(* Spec: tailing.  One session with its main file and one subagent file;   *)
(* the producer appends to the main file, its first lines possibly in two  *)
(* writes; the subagent file holds one line; the consumer drains Items;    *)
(* Stop() may be called at any time.                                       *)
(***************************************************************************)
TailMain == MainFile("s1")
TailAgent == AgentFile("s1", "a1")

Init ==
    Constructed((TailMain :> <<>>) @@ (TailAgent :> (Record(1) \o <<NL>>)),
                {}, {"s1"}, TRUE, FALSE)

Next ==
    \/ Start
    \/ Stop
    \/ Tailing
    \/ Consume
    \/ WriteLine(TailMain)
    \/ WriteFirstPart(TailMain)
    \/ WriteRest(TailMain)

Spec == Init /\ [][Next]_vars

(***************************************************************************)
(* Properties of tailing, checked under Spec.                              *)
(***************************************************************************)
\* the file an item was read from (the records of these files carry no
\* agent id of their own, so readFile stamps the file's)
FileOf(it) == <<it.sid, it.aid>>

Count(seq, x) == Cardinality({i \in 1..Len(seq) : seq[i] = x})

\* the events of the k-th line of a file, as readFile would put them on Items
EventsOfLine(path, k) ==
    StampAll(ParseLine(ScanAll(disk[path], 1)[k]).items, path)

\* the offset just after the newline of the k-th line
LineEnd(path, k) == NewlineEnds(disk[path], 1)[k]

\* the line number an item's payload names, and its place in the file
LineOf(it) == CHOOSE k \in 1..MaxLines : ToString(k) = it.content
Rank(it) == 2 * LineOf(it) + (IF it.type = "text" THEN 1 ELSE 0)

\* C1: While the watcher is started and not stopped, no event of a
\* newline-terminated line is put on Items twice, and once a tail pass has
\* moved the offset of the file past the line, each of its events has been
\* put on Items exactly once.
C1_ExactlyOnce ==
    ~ctxDone =>
        \A p \in present : \A k \in 1..CompleteLines(p) :
            \A i \in 1..Len(EventsOfLine(p, k)) :
                /\ Count(sent, EventsOfLine(p, k)[i]) <= 1
                /\ (pc = "select" /\ LineEnd(p, k) <= Pos(p))
                      => Count(sent, EventsOfLine(p, k)[i]) = 1

\* C2: No tail pass hands a line without its newline to the parser, and
\* every recorded offset is 0 or the position just after a newline (the
\* start of the line that is still incomplete).
C2_PartialLineLeft ==
    /\ ~partialParsed
    /\ \A p \in DOMAIN filePositions :
          filePositions[p] = 0 \/ disk[p][filePositions[p]] = NL

\* C3 (as stated): the items of one file are put on Items in the order of
\* their lines and, within a line, of their content blocks.
C3_InFileOrder ==
    \A i \in 1..Len(sent) : \A j \in (i + 1)..Len(sent) :
        FileOf(sent[i]) = FileOf(sent[j]) => Rank(sent[i]) <= Rank(sent[j])

\* C3 (amended): as long as shutdown has not been signalled, the items of
\* one file are put on Items in the order of their lines and content blocks.
C3_InFileOrderUntilShutdown == ~ctxDone => C3_InFileOrder

\* lines 1 and 2 of the main file were delivered, the second by a later
\* pass than the first, and shutdown has not been signalled
C3_Witness ==
    /\ ~ctxDone
    /\ phase = "tick"
    /\ CompleteLines(TailMain) = 2
    /\ \A k \in 1..2 : \A i \in 1..2 :
          Count(sent, EventsOfLine(TailMain, k)[i]) = 1
    /\ lastRead[TailMain].obs = Len(disk[TailMain])

\* readFile(p) is about to open p, whose size is what the previous
\* readFile(p) saw
SecondRead(p) ==
    /\ pc = "scan" /\ ~rf.open /\ rf.path = p
    /\ p \in present
    /\ lastRead[p].obs = Len(disk[p])

\* this step is a whole readFile(p) that yields no item and no error and
\* leaves the offset of p as it is
NothingNew(p) ==
    /\ pc' # "send"
    /\ ~rf'.open
    /\ Errors' = Errors /\ dropped' = dropped /\ sent' = sent
    /\ Pos(p)' = Pos(p)

C9_StopNeverBlocks ==
    /\ [](ENABLED Stop)
    /\ [][ctxDone => ctxDone']_vars

\* Stop() was called while readFile waits on a full Items channel
C9_Witness ==
    /\ ctxDone
    /\ pc = "send"
    /\ Len(Items) = ItemsCap

(***************************************************************************)
(* SpecSkip: the initial pass over a history.  The session's two files     *)
(* hold complete lines written before New(); SetSkipHistory may have been  *)
(* called before Start().  Nothing is appended afterwards.                 *)
(***************************************************************************)
\* a file of n complete lines, the records 1..n
History(n) ==
    LET width == Len(Record(1)) + 1
    IN  [i \in 1..(n * width) |->
            (Record(((i - 1) \div width) + 1) \o <<NL>>)[((i - 1) % width) + 1]]

\* <<lines of the main file, lines of the subagent file>>
SkipLayouts == {<<12, 3>>, <<90, 10>>, <<90, 11>>}

SkipInit ==
    \E lay \in SkipLayouts, skip \in BOOLEAN :
        Constructed((TailMain :> History(lay[1])) @@ (TailAgent :> History(lay[2])),
                    {}, {"s1"}, TRUE, skip)

\* Stop() is not called in this specification
SkipNext ==
    \/ Start
    \/ InitializeSessionReading
    \/ SkipToEndOfFiles
    \/ HandlePollTick
    \/ CleanupFilePositions
    \/ ScanLine
    \/ SendItem
    \/ Consume

SpecSkip == SkipInit /\ [][SkipNext]_vars

(***************************************************************************)
(* SpecLive: shutdown.  The main file holds two lines (four items, more   *)
(* than Items takes) and there is no subagent; the consumer may            *)
(* stop receiving at any time (no fairness on Consume), and the watch-loop *)
(* goroutine keeps being scheduled.  Go's select picks at random among its *)
(* ready cases, so the ticks chosen once ctx.Done() is ready are finitely  *)
(* many; MaxLateTicks bounds them.                                         *)
(***************************************************************************)
LiveInit ==
    Constructed((TailMain :> History(2)), {}, {"s1"}, TRUE, FALSE)

LiveNext ==
    \/ Start
    \/ Stop
    \/ Tailing
    \/ Consume

SpecLive == LiveInit /\ [][LiveNext]_vars /\ WF_vars(Tailing)

(***************************************************************************)
(* SpecDisc: discovery.  While the watcher polls, the producer creates     *)
(* further sessions, subagent files of session s1 and tool-results         *)
(* artifacts of s1; nothing receives from the notification channels.       *)
(***************************************************************************)
\* a line that is not JSON
Malformed == <<"{", NL>>

\* what the producer puts in a file it creates
Created(path) ==
    IF path = AgentFile("s1", "a1") THEN <<"{", "u", "R", "t1", "}", NL>>
    ELSE Malformed

\* the producer creates the files `paths` at once
CreateFiles(paths) ==
    /\ paths \cap present = {}
    /\ present' = present \cup paths
    /\ disk' = [p \in LogPaths |-> IF p \in paths THEN Created(p) ELSE disk[p]]
    /\ UNCHANGED <<tools, stale, inflight, regVars, filePositions, Items,
                   noteVars, flagVars, loopVars, histVars, ctlVars>>

\* two more sessions start between two polls
CreateSessions == CreateFiles({MainFile("s2"), MainFile("s3")})

\* session s1 spawns its subagents between two polls
CreateAgents == CreateFiles({AgentFile("s1", a) : a \in AgentIds})

\* the background tools of s1 write their output artifacts
CreateTools ==
    /\ tools = {}
    /\ tools' = {<<"s1", t>> : t \in ToolIds}
    /\ UNCHANGED <<disk, present, stale, inflight, regVars, filePositions,
                   Items, noteVars, flagVars, loopVars, histVars, ctlVars>>

\* every step of the watch-loop goroutine
WatchLoop ==
    \/ Tailing
    \/ CheckForNewSessions
    \/ CheckForNewSubagents
    \/ CheckForBackgroundTasks

DiscInit ==
    Constructed((TailMain :> <<"{", "a", "U", "t1", "}", NL>>), {}, {"s1"},
                TRUE, FALSE)

DiscNext ==
    \/ Start
    \/ Stop
    \/ WatchLoop
    \/ Consume
    \/ CreateSessions
    \/ CreateAgents
    \/ CreateTools

SpecDisc == DiscInit /\ [][DiscNext]_vars

(***************************************************************************)
(* SpecFair: discovery with a presentation layer that keeps receiving.     *)
(* The producer creates two sessions, one subagent file of s1 and the      *)
(* artifacts; the presentation layer receives from NewSession and NewAgent;*)
(* Stop() is not called.  The watch-loop goroutine and the presentation    *)
(* layer keep being scheduled.                                             *)
(***************************************************************************)
\* pollWatcher: one receive from NewSession or NewAgent
Receive ==
    /\ \/ /\ NewSession # <<>>
          /\ received' = received \cup {Head(NewSession)}
          /\ NewSession' = Tail(NewSession)
          /\ UNCHANGED NewAgent
       \/ /\ NewAgent # <<>>
          /\ received' = received \cup {Head(NewAgent)}
          /\ NewAgent' = Tail(NewAgent)
          /\ UNCHANGED NewSession
    /\ UNCHANGED <<fsVars, regVars, filePositions, Items, Errors,
                   NewBackgroundTask, flagVars, loopVars, histVars,
                   sessionID, removed, hpc, htool, pureVars, lockVars, pushVars>>

\* session s1 spawns the subagent that logs the result of tool t1
CreateAgent == CreateFiles({AgentFile("s1", "a1")})

\* the steps of the watch-loop goroutine while Stop() is not called
Polling ==
    \/ InitializeSessionReading
    \/ HandlePollTick
    \/ CleanupFilePositions
    \/ CheckForNewSessions
    \/ CheckForNewSubagents
    \/ CheckForBackgroundTasks
    \/ ScanLine
    \/ SendItem

FairNext ==
    \/ Start
    \/ Polling
    \/ Receive
    \/ CreateSessions
    \/ CreateAgent
    \/ CreateTools

SpecFair == DiscInit /\ [][FairNext]_vars /\ WF_vars(Polling) /\ WF_vars(Receive)

(***************************************************************************)
(* SpecReg: the registry under the control surface.  While the watcher     *)
(* polls, the user removes sessions and toggles auto-discovery, the        *)
(* producer starts a second session, a subagent of s1 and the artifacts,   *)
(* and main files fall out of the active window as time passes.  Stop()    *)
(* is not called, and Items has room for every item of these files.        *)
(***************************************************************************)
\* the main file of s was last modified longer ago than activeWindow
Age(s) ==
    /\ MainFile(s) \in present
    /\ s \notin stale
    /\ stale' = stale \cup {s}
    /\ UNCHANGED <<disk, present, tools, inflight, regVars, filePositions, Items,
                   noteVars, flagVars, loopVars, histVars, ctlVars>>

\* a second session starts
CreateSession == CreateFiles({MainFile("s2")})

RegNext ==
    \/ Start
    \/ Polling
    \/ CreateSession
    \/ CreateAgent
    \/ CreateTools
    \/ \E s \in SessionIds : Age(s)
    \/ \E s \in SessionIds : RemoveSession(s)
    \/ ToggleAutoDiscovery

SpecReg == DiscInit /\ [][RegNext]_vars

(***************************************************************************)
(* SpecNew: construction.  New(sessionID) is called on a projects          *)
(* directory that holds the main files of any of the sessions, some of     *)
(* them last modified before the active window; pc = "new" before the      *)
(* call and "failed" when it returned an error and no watcher.             *)
(***************************************************************************)
\* the ids New is called with: none, the id of a session, a prefix that
\* every session id shares, the name of the project directory, and an id
\* that occurs in no path
RequestIds == {"", "s1", "s2", "s", "p", "zz"}

\* the characters of an id
Text(id) == CASE id = "s1" -> <<"s", "1">>
              [] id = "s2" -> <<"s", "2">>
              [] id = "s3" -> <<"s", "3">>
              [] id = "s"  -> <<"s">>
              [] id = "p"  -> <<"p">>
              [] id = "zz" -> <<"z", "z">>
              [] OTHER     -> <<>>

\* the path of the main file of session s: claudeDir/project/id.jsonl
PathText(s) == <<"/", "p", "/">> \o Text(s) \o <<".">>

\* strings.Contains(hay, needle)
StringsContains(hay, needle) ==
    \E i \in 0..(Len(hay) - Len(needle)) :
        SubSeq(hay, i + 1, i + Len(needle)) = needle

\* a findSession that falls back to the most recent session file
C15_FindSessionFallsBack(id) ==
    LET files == {s \in SessionIds : MainFile(s) \in present}
    IN  IF files \ stale # {} THEN files \ stale ELSE files

\* findSession(id): the sessions it may return, none when it returns an
\* error.  The main files are sorted most recent first and the first whose
\* path contains id is taken; a file inside the active window is more
\* recent than one outside it.
findSession(id) ==
    LET files == {s \in SessionIds : MainFile(s) \in present}
        matches == {s \in files : StringsContains(PathText(s), Text(id))}
    IN  IF matches \ stale # {} THEN matches \ stale ELSE matches

\* discoverActiveSessions: the main files modified within activeWindow
discoverActiveSessions == {s \in SessionIds : MainFile(s) \in present /\ s \notin stale}

\* New(sessionID)
New ==
    /\ pc = "new"
    /\ IF sessionID # ""
       THEN IF findSession(sessionID) = {}
            THEN pc' = "failed" /\ UNCHANGED <<sessions, subagents, watchActive>>
            ELSE \E s \in findSession(sessionID) :
                    /\ sessions' = {s}
                    /\ subagents' = [subagents EXCEPT ![s] = AgentsOnDisk(s)]
                    /\ watchActive' = FALSE
                    /\ pc' = "idle"
       ELSE /\ sessions' = discoverActiveSessions
            /\ subagents' = [s \in SessionIds |->
                                IF s \in discoverActiveSessions
                                THEN AgentsOnDisk(s) ELSE {}]
            /\ watchActive' = TRUE
            /\ pc' = "idle"
    /\ UNCHANGED <<fsVars, bgTasks, filePositions, Items, noteVars, ctxDone,
                   skipHistory, phase, sessTodo, cur, lateTicks, fileTodo, rf,
                   histVars, ctlVars>>

\* before New(id): the files `mains` (session ids) exist, those of `old`
\* outside the active window
BeforeNew(mains, old, id) ==
    /\ disk = [p \in LogPaths |-> IF p[2] = "" /\ p[1] \in mains
                                  THEN Malformed ELSE <<>>]
    /\ present = {MainFile(s) : s \in mains}
    /\ tools = {}
    /\ stale = old
    /\ inflight = [p \in LogPaths |-> <<>>]
    /\ sessions = {}
    /\ subagents = [s \in SessionIds |-> {}]
    /\ bgTasks = [s \in SessionIds |-> <<>>]
    /\ filePositions = <<>>
    /\ Items = <<>> /\ Errors = <<>> /\ NewAgent = <<>>
    /\ NewSession = <<>> /\ NewBackgroundTask = <<>>
    /\ ctxDone = FALSE
    /\ watchActive = FALSE
    /\ skipHistory = FALSE
    /\ pc = "new" /\ phase = "read" /\ sessTodo = {} /\ cur = "s1"
    /\ lateTicks = 0 /\ fileTodo = {} /\ rf = NoRead
    /\ sent = <<>>
    /\ partialParsed = FALSE
    /\ lastRead = [p \in LogPaths |-> [obs |-> -1, done |-> FALSE]]
    /\ dropped = {}
    /\ mode = "none"
    /\ autoAtTick = FALSE
    /\ inserts = [tp \in ToolPaths |-> 0]
    /\ sessionID = id
    /\ removed = [s \in SessionIds |-> 0]
    /\ received = {}
    /\ hpc = "idle" /\ htool = ""
    /\ NoCall
    /\ PushIdle
    /\ LockIdle

NewInit ==
    \E mains \in SUBSET SessionIds : \E old \in SUBSET mains :
        \E id \in RequestIds : BeforeNew(mains, old, id)

NewNext ==
    \/ New
    \/ Start

SpecNew == NewInit /\ [][NewNext]_vars

(***************************************************************************)
(* SpecRace: two correlation passes.  Beside the watch loop, a push-event  *)
(* handler task runs checkForBackgroundTasks("s1") when the tool-results   *)
(* directory changes.  The handler takes the steps of the function as its  *)
(* locking divides them: the existence check under the read lock, then,    *)
(* with no lock held, the file searches, and the insert under the write    *)
(* lock followed by the notification.                                      *)
(***************************************************************************)
\* checkForBackgroundTasks("s1") in the handler: session.mu.RLock();
\* _, exists := session.BackgroundTasks[toolID]; session.mu.RUnlock(),
\* at an artifact that is not in the map
HandlerCheck ==
    /\ hpc = "idle"
    /\ pc \notin {"idle", "stopped"}
    /\ ~ctxDone
    /\ "s1" \in sessions
    /\ \E t \in TasksNew("s1") : htool' = t
    /\ hpc' = "insert"
    /\ UNCHANGED <<fsVars, regVars, filePositions, Items, noteVars, flagVars,
                   loopVars, histVars, sessionID, removed, received,
                   pureVars, lockVars, pushVars>>

\* checkForBackgroundTasks("s1") in the handler, after the check: the task
\* is built, session.BackgroundTasks[toolID] = task under the write lock,
\* and the notification is offered
HandlerInsert ==
    /\ hpc = "insert"
    /\ \E r \in findBackgroundTaskParent("s1", htool) :
          LET done == isBackgroundTaskComplete("s1", htool)
          IN  /\ bgTasks' = [bgTasks EXCEPT !["s1"] =
                                (htool :> [parent |-> r.parent, name |-> r.name,
                                           complete |-> done]) @@ @]
              /\ NewBackgroundTask' =
                    TrySend(NewBackgroundTask,
                            [sid |-> "s1", tool |-> htool, parent |-> r.parent,
                             name |-> r.name, complete |-> done])
    /\ dropped' = Drops(NewBackgroundTask, "NewBackgroundTask")
    /\ inserts' = [inserts EXCEPT ![<<"s1", htool>>] = @ + 1]
    /\ hpc' = "idle"
    /\ htool' = ""
    /\ UNCHANGED <<fsVars, sessions, subagents, filePositions, Items, Errors,
                   NewAgent, NewSession, flagVars, loopVars,
                   sent, partialParsed, lastRead, mode, autoAtTick,
                   sessionID, removed, received, pureVars, lockVars, pushVars>>

RaceNext ==
    \/ Start
    \/ InitializeSessionReading
    \/ HandlePollTick
    \/ CleanupFilePositions
    \/ CheckForBackgroundTasks
    \/ ScanLine
    \/ SendItem
    \/ Consume
    \/ HandlerCheck
    \/ HandlerInsert
    \/ CreateTools

SpecRace == DiscInit /\ [][RaceNext]_vars

(***************************************************************************)
(* SpecErr: lines that do not parse.  The main file of s1 begins with one  *)
(* line that is not JSON, or that is JSON whose message does not decode,   *)
(* or that is blank; the producer appends whole records after it; the      *)
(* consumer drains Items and nothing receives from Errors.                 *)
(***************************************************************************)
ErrLines == {<<"{">>,
             <<"}", "a">>,
             <<"{", "a", BadMessage, "}">>,
             <<"{", "u", BadMessage, "}">>,
             <<" ">>}

ErrInit ==
    \E line \in ErrLines :
        Constructed((TailMain :> (line \o <<NL>>)), {}, {"s1"}, TRUE, FALSE)

ErrNext ==
    \/ Start
    \/ InitializeSessionReading
    \/ HandlePollTick
    \/ CleanupFilePositions
    \/ ScanLine
    \/ SendItem
    \/ Consume
    \/ WriteLine(TailMain)

SpecErr == ErrInit /\ [][ErrNext]_vars

(***************************************************************************)
(* SpecScan: a line longer than the scanner's buffer.  The main file of s1 *)
(* holds a line of LongLine tokens (with or without its newline, first in  *)
(* the file or after a record); the producer appends whole records; the    *)
(* presentation layer receives items and errors.                           *)
(***************************************************************************)
LongLine(n) == [i \in 1..n |-> "x"]

ScanLayouts ==
    {LongLine(ScannerMaxBufferSize),
     LongLine(ScannerMaxBufferSize - 1) \o <<NL>>,
     LongLine(ScannerMaxBufferSize + 1) \o <<NL>>,
     LongLine(2 * ScannerMaxBufferSize + 1) \o <<NL>>,
     Record(1) \o <<NL>> \o LongLine(ScannerMaxBufferSize) \o <<NL>>}

ScanInit ==
    \E content \in ScanLayouts :
        Constructed((TailMain :> content), {}, {"s1"}, TRUE, FALSE)

\* case err := <-m.watcher.Errors of pollWatcher
ReceiveError ==
    /\ Errors # <<>>
    /\ Errors' = Tail(Errors)
    /\ UNCHANGED <<fsVars, regVars, filePositions, Items, NewAgent, NewSession,
                   NewBackgroundTask, flagVars, loopVars, histVars, ctlVars>>

ScanNext ==
    \/ Start
    \/ InitializeSessionReading
    \/ HandlePollTick
    \/ CleanupFilePositions
    \/ ScanLine
    \/ SendItem
    \/ Consume
    \/ ReceiveError
    \/ WriteLine(TailMain)

SpecScan == ScanInit /\ [][ScanNext]_vars

(***************************************************************************)
(* SpecParse: ParseLine called on its own, on one line: a record of up to  *)
(* two content blocks, a record whose message does not decode, a record    *)
(* that lost its first or last token, or a line of whitespace.             *)
(***************************************************************************)
Payloads == {"", "x", "y"}
ArrayPayloads == {"[]", "[x]", "[x,y]"}

\* the text sub-blocks of the array a payload names
SubBlocks(p) == CASE p = "[x]" -> <<"block one">>
                  [] p = "[x,y]" -> <<"block one", "block two">>
                  [] OTHER -> <<>>

BlockSeqs == {<<k, p>> : k \in KindTokens \ {"M"}, p \in Payloads}
                 \cup {<<"M", p>> : p \in ArrayPayloads}

Bodies == {<<>>, <<BadMessage>>} \cup BlockSeqs
              \cup {b1 \o b2 : b1 \in BlockSeqs, b2 \in BlockSeqs}

Records == {<<"{", t>> \o ag \o b \o <<"}">> :
               t \in TypeTokens, ag \in {<<>>, <<"@a1">>}, b \in Bodies}

ParseInputs ==
    Records \cup {SubSeq(r, 1, Len(r) - 1) : r \in Records}
            \cup {Tail(r) : r \in Records}
            \cup {<<>>, <<" ">>, <<" ", " ">>}

ParseCall ==
    /\ call.fn = "none"
    /\ \E l \in ParseInputs :
          call' = [fn |-> "ParseLine", line |-> l,
                   items |-> ParseLine(l).items, err |-> ParseLine(l).err]
    /\ UNCHANGED <<fsVars, regVars, filePositions, Items, noteVars, flagVars,
                   loopVars, histVars, sessionID, removed, received, hpc, htool,
                   pushVars, lockVars>>

ParseInit == Constructed(<<>>, {}, {}, TRUE, FALSE)

ParseNext == ParseCall

SpecParse == ParseInit /\ [][ParseNext]_vars

(***************************************************************************)
(* SpecResolve: resolveProjectPath called on its own.  A string is the     *)
(* sequence of its characters; `existing` holds the paths for which        *)
(* os.Stat succeeds.                                                       *)
(***************************************************************************)
\* strings.TrimPrefix(s, "-")
TrimPrefix(str) == IF str # <<>> /\ Head(str) = "-" THEN Tail(str) ELSE str

\* strings.Split(s, "-")
RECURSIVE Split(_)
Split(str) ==
    LET i == IF \E j \in 1..Len(str) : str[j] = "-"
             THEN CHOOSE j \in 1..Len(str) :
                      str[j] = "-" /\ \A k \in 1..(j - 1) : str[k] # "-"
             ELSE 0
    IN  IF i = 0 THEN <<str>>
        ELSE <<SubSeq(str, 1, i - 1)>> \o Split(SubSeq(str, i + 1, Len(str)))

\* strings.Join(parts, sep)
RECURSIVE Join(_, _)
Join(parts, sep) ==
    IF parts = <<>> THEN <<>>
    ELSE IF Len(parts) = 1 THEN parts[1]
    ELSE parts[1] \o <<sep>> \o Join(Tail(parts), sep)

\* strings.ReplaceAll(s, "-", "/")
ReplaceAll(str) == [i \in 1..Len(str) |-> IF str[i] = "-" THEN "/" ELSE str[i]]

\* the path os.Stat looks up: repeated separators count as one
Clean(path) ==
    SelectSeq([i \in 1..Len(path) |->
                  IF path[i] = "/" /\ i > 1 /\ path[i - 1] = "/" THEN "" ELSE path[i]],
              LAMBDA c : c # "")

\* _, err := os.Stat(testPath); err == nil
Stat(path, existing) ==
    LET c == Clean(path)
    IN  \/ c \in existing
        \/ Len(c) > 1 /\ c[Len(c)] = "/" /\ SubSeq(c, 1, Len(c) - 1) \in existing

\* pathPart + "/" + dirPart for one joinFrom
Candidate(parts, joinFrom) ==
    Join(SubSeq(parts, 1, joinFrom), "/") \o <<"/">>
        \o Join(SubSeq(parts, joinFrom + 1, Len(parts)), "-")

\* a resolveProjectPath whose fallback returns the name as it is
C30_ResolveKeepsDelimiters(encoded, existing) ==
    LET enc == TrimPrefix(encoded)
        parts == Split(enc)
        found == {j \in 1..(Len(parts) - 1) :
                     Stat(<<"/">> \o Candidate(parts, j), existing)}
    IN  IF enc = <<>> THEN <<>>
        ELSE IF found # {}
        THEN Candidate(parts, CHOOSE j \in found : \A k \in found : k <= j)
        ELSE enc

\* a resolveProjectPath that scans the split points from the left
C35_ResolveFromLeft(encoded, existing) ==
    LET enc == TrimPrefix(encoded)
        parts == Split(enc)
        found == {j \in 1..(Len(parts) - 1) :
                     Stat(<<"/">> \o Candidate(parts, j), existing)}
    IN  IF enc = <<>> THEN <<>>
        ELSE IF found # {}
        THEN Candidate(parts, CHOOSE j \in found : \A k \in found : k >= j)
        ELSE ReplaceAll(enc)

\* resolveProjectPath: joinFrom runs from len(parts)-1 down to 1 and the
\* first candidate that exists is returned
resolveProjectPath(encoded, existing) ==
    LET enc == TrimPrefix(encoded)
        parts == Split(enc)
        found == {j \in 1..(Len(parts) - 1) :
                     Stat(<<"/">> \o Candidate(parts, j), existing)}
    IN  IF enc = <<>> THEN <<>>
        ELSE IF found # {}
        THEN Candidate(parts, CHOOSE j \in found : \A k \in found : k <= j)
        ELSE ReplaceAll(enc)

MaxName == 5
NameChars == {"-", "a", "b"}
EncodedNames == UNION {[1..n -> NameChars] : n \in 0..MaxName}

ExistingSets ==
    {{},
     {<<"/", "a", "/", "b">>},
     {<<"/", "a", "-", "b">>},
     {<<"/", "a", "/", "a", "-", "b">>},
     {<<"/", "a", "/", "b">>, <<"/", "a", "/", "a", "-", "b">>},
     {<<"/", "a", "/", "a", "/", "b">>, <<"/", "a", "/", "a", "-", "b">>},
     {<<"/", "a", "-", "a", "-", "b">>},
     {<<"/", "a">>, <<"/", "b">>}}

ResolveCall ==
    /\ call.fn = "none"
    /\ \E enc \in EncodedNames, ex \in ExistingSets :
          call' = [fn |-> "resolveProjectPath", encoded |-> enc, existing |-> ex,
                   result |-> resolveProjectPath(enc, ex)]
    /\ UNCHANGED <<fsVars, regVars, filePositions, Items, noteVars, flagVars,
                   loopVars, histVars, sessionID, removed, received, hpc, htool,
                   pushVars, lockVars>>

ResolveInit == Constructed(<<>>, {}, {}, TRUE, FALSE)

ResolveNext == ResolveCall

SpecResolve == ResolveInit /\ [][ResolveNext]_vars

(***************************************************************************)
(* Push mode.  The watch loop (pc = "events") receives the notifications   *)
(* of the file system.  A write notification for a registered path arms    *)
(* the debounce timer of the path, replacing a pending one; a timer that   *)
(* fires leaves the table and its task runs readFile for the path; Stop    *)
(* cancels the context and stops every timer of the table.                 *)
(*   debounceTimers[p]  "pending": armed, will fire; "stopped": Stop() was *)
(*                      called on it                                       *)
(*   tasks[i].state     "free", or "scan" / "send" as pc for readFile      *)
(***************************************************************************)
\* the file system queues a write notification for a file that has grown
NotifyWrite(p) ==
    /\ p \in present
    /\ Len(disk[p]) > notified.len[p]
    /\ Len(events) < MaxEvents
    /\ events' = Append(events, [op |-> "write", path |-> p])
    /\ notified' = [notified EXCEPT !.len[p] = Len(disk[p])]
    /\ UNCHANGED <<fsVars, regVars, filePositions, Items, noteVars, flagVars,
                   loopVars, histVars, sessionID, removed, received, hpc, htool,
                   pureVars, lockVars, fileContexts, debounceTimers, tasks, pushed>>

\* the file system queues a create notification for a new file
NotifyCreate(x) ==
    /\ x \in (present \cup tools) \ notified.made
    /\ Len(events) < MaxEvents
    /\ events' = Append(events, [op |-> "create", path |-> x])
    /\ notified' = [notified EXCEPT !.made = @ \cup {x},
                                    !.len = [p \in LogPaths |->
                                                IF p = x THEN Len(disk[p]) ELSE @[p]]]
    /\ UNCHANGED <<fsVars, regVars, filePositions, Items, noteVars, flagVars,
                   loopVars, histVars, sessionID, removed, received, hpc, htool,
                   pureVars, lockVars, fileContexts, debounceTimers, tasks, pushed>>

\* registerSessionWatches for every session New found, then
\* go w.watchLoopFsnotify()
StartPush ==
    /\ pc = "idle"
    /\ pc' = "events"
    /\ fileContexts' = UNION {FilesOf(s) : s \in sessions}
    /\ UNCHANGED <<fsVars, regVars, filePositions, Items, noteVars, flagVars,
                   phase, sessTodo, cur, lateTicks, fileTodo, rf, histVars,
                   sessionID, removed, received, hpc, htool, pureVars, lockVars,
                   events, debounceTimers, tasks, notified, pushed>>

\* the select of the watch loop chose the events arm (once the context is
\* cancelled the choice between the ready arms is random)
ReceiveEvent(op) ==
    /\ pc = "events"
    /\ events # <<>>
    /\ Head(events).op = op
    /\ ctxDone => lateTicks < MaxLateTicks
    /\ lateTicks' = IF ctxDone THEN lateTicks + 1 ELSE lateTicks
    /\ events' = Tail(events)

\* handleFsWrite: timer.Stop() on the entry of the path, if any, and a new
\* timer in its place
Arm(p) == (p :> "pending") @@ debounceTimers

\* a handleFsWrite that arms a timer for whatever path the event names
C34_ArmUntracked ==
    /\ ReceiveEvent("write")
    /\ LET p == Head(events).path
       IN  /\ debounceTimers' = Arm(p)
           /\ pushed' = [pushed EXCEPT
                 ![p].notes = @ + 1,
                 ![p].bursts = IF p \in DOMAIN debounceTimers
                                  /\ debounceTimers[p] = "pending"
                               THEN @ ELSE @ + 1]
    /\ UNCHANGED <<fsVars, regVars, filePositions, Items, noteVars, flagVars,
                   pc, phase, sessTodo, cur, fileTodo, rf, histVars,
                   sessionID, removed, received, hpc, htool, pureVars, lockVars,
                   fileContexts, tasks, notified>>

\* watchLoopFsnotify: a write event; an untracked path is ignored
HandleFsWrite ==
    /\ ReceiveEvent("write")
    /\ LET p == Head(events).path
       IN  IF p \in fileContexts
           THEN /\ debounceTimers' = Arm(p)
                /\ pushed' = [pushed EXCEPT
                      ![p].notes = @ + 1,
                      ![p].bursts = IF p \in DOMAIN debounceTimers
                                       /\ debounceTimers[p] = "pending"
                                    THEN @ ELSE @ + 1]
           ELSE UNCHANGED <<debounceTimers, pushed>>
    /\ UNCHANGED <<fsVars, regVars, filePositions, Items, noteVars, flagVars,
                   pc, phase, sessTodo, cur, fileTodo, rf, histVars,
                   sessionID, removed, received, hpc, htool, pureVars, lockVars,
                   fileContexts, tasks, notified>>

\* watchLoopFsnotify: case <-w.ctx.Done(): return
PushLoopExit ==
    /\ pc = "events"
    /\ ctxDone
    /\ pc' = "stopped"
    /\ UNCHANGED <<fsVars, regVars, filePositions, Items, noteVars, flagVars,
                   phase, sessTodo, cur, lateTicks, fileTodo, rf, histVars, ctlVars>>

\* the first task that is free
FreeTask == CHOOSE i \in 1..MaxTasks :
                tasks[i].state = "free" /\ \A j \in 1..(i - 1) : tasks[j].state # "free"

\* a timer that fires and stays in the table
C22_FireKeepsEntry(p) ==
    /\ p \in DOMAIN debounceTimers
    /\ debounceTimers[p] = "pending"
    /\ \E i \in 1..MaxTasks : tasks[i].state = "free"
    /\ debounceTimers' = [debounceTimers EXCEPT ![p] = "stopped"]
    /\ tasks' = [tasks EXCEPT ![FreeTask] = [NoTask EXCEPT !.state = "scan", !.path = p]]
    /\ pushed' = [pushed EXCEPT ![p].fires = @ + 1]
    /\ UNCHANGED <<fsVars, regVars, filePositions, Items, noteVars, flagVars,
                   loopVars, histVars, sessionID, removed, received, hpc, htool,
                   pureVars, lockVars, events, fileContexts, notified>>

\* the debounce interval of the pending timer of p has passed: its entry
\* leaves the table and its task begins readFile(p)
TimerFire(p) ==
    /\ p \in DOMAIN debounceTimers
    /\ debounceTimers[p] = "pending"
    /\ \E i \in 1..MaxTasks : tasks[i].state = "free"
    /\ debounceTimers' = [q \in DOMAIN debounceTimers \ {p} |-> debounceTimers[q]]
    /\ tasks' = [tasks EXCEPT ![FreeTask] = [NoTask EXCEPT !.state = "scan", !.path = p]]
    /\ pushed' = [pushed EXCEPT ![p].fires = @ + 1]
    /\ UNCHANGED <<fsVars, regVars, filePositions, Items, noteVars, flagVars,
                   loopVars, histVars, sessionID, removed, received, hpc, htool,
                   pureVars, lockVars, events, fileContexts, notified>>

\* readFile in the debounce task i: one scanner.Scan(), as ScanLine
TaskScan(i) ==
    LET t == tasks[i] IN
    /\ t.state = "scan"
    /\ IF ~t.open /\ t.path \notin present
       THEN /\ tasks' = [tasks EXCEPT ![i] = NoTask]
            /\ UNCHANGED <<filePositions, Errors, partialParsed, lastRead, dropped>>
       ELSE
       LET from == IF t.open THEN t.scanPos ELSE Pos(t.path)
           upto == IF t.open THEN t.readPos ELSE Pos(t.path)
           r == Scan(disk[t.path], from, upto, t.eof)
           parsed == ParseLine(r.tok)
           after == [t EXCEPT !.open = TRUE, !.scanPos = r.scanPos,
                              !.readPos = r.readPos, !.eof = r.eof]
       IN  IF ~r.more
           THEN /\ filePositions' = (t.path :> NewPos(r)) @@ filePositions
                /\ lastRead' = [lastRead EXCEPT ![t.path] =
                                   [obs |-> r.readPos, done |-> TRUE]]
                /\ tasks' = [tasks EXCEPT ![i] = NoTask]
                /\ Errors' = IF r.err THEN TrySend(Errors, "scanner error")
                                      ELSE Errors
                /\ dropped' = IF r.err THEN Drops(Errors, "Errors") ELSE dropped
                /\ UNCHANGED partialParsed
           ELSE /\ partialParsed' = (partialParsed \/ ~r.whole)
                /\ UNCHANGED <<filePositions, lastRead>>
                /\ IF parsed.err
                   THEN /\ Errors' = TrySend(Errors, "failed to parse JSON")
                        /\ dropped' = Drops(Errors, "Errors")
                        /\ tasks' = [tasks EXCEPT ![i] = after]
                   ELSE /\ tasks' = [tasks EXCEPT ![i] =
                               [after EXCEPT !.items = StampAll(parsed.items, t.path),
                                             !.state = IF parsed.items = <<>>
                                                       THEN "scan" ELSE "send"]]
                        /\ UNCHANGED <<Errors, dropped>>
    /\ UNCHANGED <<fsVars, regVars, Items, NewAgent, NewSession, NewBackgroundTask,
                   flagVars, loopVars, sent, mode, autoAtTick, inserts,
                   sessionID, removed, received, hpc, htool, pureVars, lockVars,
                   events, fileContexts, debounceTimers, notified, pushed>>

\* readFile in the debounce task i: the send arm of its select
TaskSend(i) ==
    LET t == tasks[i] IN
    /\ t.state = "send"
    /\ Len(Items) < ItemsCap
    /\ Items' = Append(Items, Head(t.items))
    /\ sent' = Append(sent, Head(t.items))
    /\ tasks' = [tasks EXCEPT ![i] =
                    [t EXCEPT !.items = Tail(@),
                              !.state = IF Tail(t.items) = <<>> THEN "scan" ELSE "send"]]
    /\ UNCHANGED <<fsVars, regVars, filePositions, noteVars, flagVars, loopVars,
                   partialParsed, lastRead, dropped, mode, autoAtTick, inserts,
                   sessionID, removed, received, hpc, htool, pureVars, lockVars,
                   events, fileContexts, debounceTimers, notified, pushed>>

\* readFile in the debounce task i: the ctx.Done() arm of its select
TaskAbandon(i) ==
    LET t == tasks[i] IN
    /\ t.state = "send"
    /\ CanAbandon
    /\ lastRead' = [lastRead EXCEPT ![t.path] = [obs |-> t.readPos, done |-> FALSE]]
    /\ tasks' = [tasks EXCEPT ![i] = NoTask]
    /\ UNCHANGED <<fsVars, regVars, filePositions, Items, noteVars, flagVars,
                   loopVars, sent, partialParsed, dropped, mode, autoAtTick, inserts,
                   sessionID, removed, received, hpc, htool, pureVars, lockVars,
                   events, fileContexts, debounceTimers, notified, pushed>>

\* a Stop that cancels the context and leaves the timers alone
C24_StopLeavesTimers ==
    /\ ctxDone' = TRUE
    /\ UNCHANGED <<fsVars, regVars, filePositions, Items, noteVars,
                   watchActive, skipHistory, loopVars, histVars, ctlVars>>

\* Stop in push mode: w.cancel(), then timer.Stop() on every entry of the
\* table (the entries stay); a second call finds stopped timers
StopPush ==
    /\ ctxDone' = TRUE
    /\ debounceTimers' = [p \in DOMAIN debounceTimers |-> "stopped"]
    /\ UNCHANGED <<fsVars, regVars, filePositions, Items, noteVars,
                   watchActive, skipHistory, loopVars, histVars,
                   sessionID, removed, received, hpc, htool, pureVars, lockVars,
                   events, fileContexts, tasks, notified, pushed>>

(***************************************************************************)
(* SpecPush: tailing in push mode.  Session s1 with an empty main file;    *)
(* the producer appends whole records; the consumer drains Items; Stop()   *)
(* may be called at any time.                                              *)
(***************************************************************************)
PushInit == Constructed((TailMain :> <<>>), {}, {"s1"}, TRUE, FALSE)

PushNext ==
    \/ StartPush
    \/ WriteLine(TailMain)
    \/ NotifyWrite(TailMain)
    \/ HandleFsWrite
    \/ TimerFire(TailMain)
    \/ \E i \in 1..MaxTasks : TaskScan(i)
    \/ \E i \in 1..MaxTasks : TaskSend(i)
    \/ \E i \in 1..MaxTasks : TaskAbandon(i)
    \/ Consume
    \/ StopPush
    \/ PushLoopExit

SpecPush == PushInit /\ [][PushNext]_vars

(***************************************************************************)
(* SpecCreate: discovery in push mode.  Session s1 is known and its main   *)
(* file holds the tool_use of t1; once the watches are registered the      *)
(* producer starts two sessions, s1 spawns its subagents and its           *)
(* background tools write their artifacts, and the file system raises a    *)
(* create notification for each.  The watch loop handles a create          *)
(* notification inline, at                                                 *)
(*   push_walk    checkForNewSessions, at a main file not in the registry  *)
(*   push_agents  checkForNewSubagents(cur), at an unknown agent file      *)
(*   push_tasks   checkForBackgroundTasks(cur), at an untracked artifact   *)
(* and goes back to its select (pc = "events").  The subagent a1 then      *)
(* appends to its file.  Auto-discovery is on or off from the start.       *)
(***************************************************************************)
\* registerSessionWatches(s) for a session just built: its main file and
\* the agent files buildSession found
SessionWatches(s) == {MainFile(s)} \cup {AgentFile(s, a) : a \in AgentsOnDisk(s)}

\* watchLoopFsnotify: a create event.  A main session file re-runs
\* discovery when auto-discovery is on; an agent file or an artifact of a
\* known session re-runs that session's subagent or background-task check;
\* anything else is ignored
HandleFsCreate ==
    /\ ReceiveEvent("create")
    /\ LET x == Head(events).path
           main == x \in LogPaths /\ x[2] = ""
           agent == x \in LogPaths /\ x[2] # ""
       IN  /\ pc' = CASE main -> IF watchActive THEN "push_walk" ELSE pc
                      [] agent -> IF x[1] \in sessions THEN "push_agents" ELSE pc
                      [] OTHER -> IF x[1] \in sessions THEN "push_tasks" ELSE pc
           /\ cur' = IF ~main /\ x[1] \in sessions THEN x[1] ELSE cur
    /\ UNCHANGED <<fsVars, regVars, filePositions, Items, noteVars, flagVars,
                   phase, sessTodo, fileTodo, rf, histVars,
                   sessionID, removed, received, hpc, htool, pureVars, lockVars,
                   fileContexts, debounceTimers, tasks, notified, pushed>>

\* checkForNewSessions in the create handler, as CheckForNewSessions; the
\* session it adds gets its watches
PushCheckForNewSessions ==
    /\ pc = "push_walk"
    /\ IF ctxDone \/ SessionsNew = {}
       THEN /\ pc' = "events"
            /\ UNCHANGED <<regVars, NewSession, dropped, fileContexts>>
       ELSE \E s \in SessionsNew :
            /\ CanNotify(NewSession)
            /\ sessions' = sessions \cup {s}
            /\ subagents' = [subagents EXCEPT ![s] = AgentsOnDisk(s)]
            /\ bgTasks' = [bgTasks EXCEPT ![s] = <<>>]
            /\ fileContexts' = fileContexts \cup SessionWatches(s)
            /\ NewSession' = TrySend(NewSession, [sid |-> s])
            /\ dropped' = Drops(NewSession, "NewSession")
            /\ UNCHANGED pc
    /\ UNCHANGED <<fsVars, filePositions, Items, Errors, NewAgent,
                   NewBackgroundTask, flagVars, phase, sessTodo, cur, lateTicks,
                   fileTodo, rf, sent, partialParsed, lastRead, mode, autoAtTick,
                   inserts, sessionID, removed, received, hpc, htool, pureVars, lockVars,
                   events, debounceTimers, tasks, notified, pushed>>

\* a subagent check that adds the agent and leaves its file unwatched
C25_DiscoverUnwatched ==
    /\ pc = "push_agents"
    /\ IF AgentsNew(cur) = {}
       THEN pc' = "events" /\ UNCHANGED <<subagents, NewAgent, dropped>>
       ELSE \E a \in AgentsNew(cur) :
               /\ CanNotify(NewAgent)
               /\ subagents' = [subagents EXCEPT ![cur] = @ \cup {a}]
               /\ NewAgent' = TrySend(NewAgent, [sid |-> cur, aid |-> a])
               /\ dropped' = Drops(NewAgent, "NewAgent")
               /\ pc' = IF AgentsNew(cur) = {a} THEN "events" ELSE pc
    /\ UNCHANGED <<fsVars, sessions, bgTasks, filePositions, Items, Errors,
                   NewSession, NewBackgroundTask, flagVars,
                   phase, sessTodo, cur, lateTicks, fileTodo, rf,
                   sent, partialParsed, lastRead, mode, autoAtTick, inserts,
                   ctlVars>>

\* checkForNewSubagents(cur) in the create handler, as
\* CheckForNewSubagents; the agent file it adds gets its watch
PushCheckForNewSubagents ==
    /\ pc = "push_agents"
    /\ IF AgentsNew(cur) = {}
       THEN pc' = "events" /\ UNCHANGED <<subagents, NewAgent, dropped, fileContexts>>
       ELSE \E a \in AgentsNew(cur) :
               /\ CanNotify(NewAgent)
               /\ subagents' = [subagents EXCEPT ![cur] = @ \cup {a}]
               /\ fileContexts' = fileContexts \cup {AgentFile(cur, a)}
               /\ NewAgent' = TrySend(NewAgent, [sid |-> cur, aid |-> a])
               /\ dropped' = Drops(NewAgent, "NewAgent")
               /\ pc' = IF AgentsNew(cur) = {a} THEN "events" ELSE pc
    /\ UNCHANGED <<fsVars, sessions, bgTasks, filePositions, Items, Errors,
                   NewSession, NewBackgroundTask, flagVars,
                   phase, sessTodo, cur, lateTicks, fileTodo, rf,
                   sent, partialParsed, lastRead, mode, autoAtTick, inserts,
                   sessionID, removed, received, hpc, htool, pureVars, lockVars,
                   events, debounceTimers, tasks, notified, pushed>>

\* checkForBackgroundTasks(cur) in the create handler, as
\* CheckForBackgroundTasks
PushCheckForBackgroundTasks ==
    /\ pc = "push_tasks"
    /\ IF TasksNew(cur) = {}
       THEN pc' = "events" /\ UNCHANGED <<bgTasks, NewBackgroundTask, dropped, inserts>>
       ELSE \E t \in TasksNew(cur) : \E r \in findBackgroundTaskParent(cur, t) :
               LET done == isBackgroundTaskComplete(cur, t)
               IN  /\ CanNotify(NewBackgroundTask)
                   /\ bgTasks' = [bgTasks EXCEPT ![cur] =
                                     (t :> [parent |-> r.parent, name |-> r.name,
                                            complete |-> done]) @@ @]
                   /\ NewBackgroundTask' =
                         TrySend(NewBackgroundTask,
                                 [sid |-> cur, tool |-> t, parent |-> r.parent,
                                  name |-> r.name, complete |-> done])
                   /\ dropped' = Drops(NewBackgroundTask, "NewBackgroundTask")
                   /\ inserts' = [inserts EXCEPT ![<<cur, t>>] = @ + 1]
                   /\ pc' = IF TasksNew(cur) = {t} THEN "events" ELSE pc
    /\ UNCHANGED <<fsVars, sessions, subagents, filePositions, Items, Errors,
                   NewAgent, NewSession, flagVars,
                   phase, sessTodo, cur, lateTicks, fileTodo, rf,
                   sent, partialParsed, lastRead, mode, autoAtTick, ctlVars>>

CreateInit ==
    \E auto \in BOOLEAN :
        Constructed((TailMain :> <<"{", "a", "U", "t1", "}", NL>>), {}, {"s1"},
                    auto, FALSE)

\* the producer acts once the watches are registered
CreateNext ==
    \/ StartPush
    \/ pc # "idle" /\ CreateSession
    \/ pc # "idle" /\ CreateAgent
    \/ pc # "idle" /\ CreateTools
    \/ \E x \in LogPaths \cup ToolPaths : NotifyCreate(x)
    \/ HandleFsCreate
    \/ PushCheckForNewSessions
    \/ PushCheckForNewSubagents
    \/ PushCheckForBackgroundTasks
    \/ Receive
    \/ WriteLine(TailAgent)
    \/ NotifyWrite(TailAgent)
    \/ HandleFsWrite
    \/ TimerFire(TailAgent)
    \/ \E i \in 1..MaxTasks : TaskScan(i)
    \/ \E i \in 1..MaxTasks : TaskSend(i)
    \/ \E i \in 1..MaxTasks : TaskAbandon(i)
    \/ Consume
    \/ StopPush
    \/ PushLoopExit

SpecCreate == CreateInit /\ [][CreateNext]_vars

(***************************************************************************)
(* SpecClean: offset cleanup.  Session s1 with its main file and the file  *)
(* of subagent a1, which holds one record.  The producer deletes the agent *)
(* file and later creates it again with another record; poll ticks and     *)
(* cleanup ticks come in any order.  A file that is deleted while readFile *)
(* has it open is read to its end (disk keeps what the open file holds);   *)
(* it is not created again before that read has returned.                  *)
(***************************************************************************)
\* the producer removes a log file
DeleteFile(p) ==
    /\ p \in present
    /\ Len(sent) < MaxSent
    /\ present' = present \ {p}
    /\ UNCHANGED <<disk, tools, stale, inflight, regVars, filePositions, Items,
                   noteVars, flagVars, loopVars, histVars, ctlVars>>

\* the producer creates the agent file again
RecreateAgent ==
    /\ ~(pc \in {"scan", "send"} /\ rf.open /\ rf.path = TailAgent)
    /\ CreateAgent

CleanInit == Init

CleanNext ==
    \/ Start
    \/ InitializeSessionReading
    \/ HandlePollTick
    \/ CleanupFilePositions
    \/ ScanLine
    \/ SendItem
    \/ Consume
    \/ DeleteFile(TailAgent)
    \/ RecreateAgent

SpecClean == CleanInit /\ [][CleanNext]_vars

(***************************************************************************)
(* SpecLate: files that appear after the initial pass.  Session s1 with a  *)
(* main file of 2 or of 101 lines, history-skip requested or not; after    *)
(* Start() the producer starts session s2, whose main file holds one       *)
(* record, and s1 spawns subagent a1, whose file holds one record.  The    *)
(* consumer drains Items; Stop() is not called.                            *)
(***************************************************************************)
\* lines of the main file of s1
LateLayouts == {2, 101}

\* session s starts: its main file appears with its first record
StartSession(s) ==
    /\ pc # "idle"
    /\ MainFile(s) \notin present
    /\ present' = present \cup {MainFile(s)}
    /\ disk' = [disk EXCEPT ![MainFile(s)] = Record(1) \o <<NL>>]
    /\ UNCHANGED <<tools, stale, inflight, regVars, filePositions, Items,
                   noteVars, flagVars, loopVars, histVars, ctlVars>>

LateInit ==
    \E n \in LateLayouts, skip \in BOOLEAN :
        Constructed((TailMain :> History(n)), {}, {"s1"}, TRUE, skip)

LateNext ==
    \/ Start
    \/ InitializeSessionReading
    \/ SkipToEndOfFiles
    \/ HandlePollTick
    \/ CheckForNewSessions
    \/ CheckForNewSubagents
    \/ ScanLine
    \/ SendItem
    \/ Consume
    \/ StartSession("s2")
    \/ pc # "idle" /\ CreateAgent

SpecLate == LateInit /\ [][LateNext]_vars

(***************************************************************************)
(* Properties of the initial pass, checked under SpecSkip.                 *)
(***************************************************************************)
\* the newline bytes of a file
NewlinesIn(path) == Cardinality({i \in DOMAIN disk[path] : disk[path][i] = NL})

\* the files of the session known at start (SpecSkip never changes disk)
KnownFiles == {TailMain, TailAgent}
TotalAtStart == NewlinesIn(TailMain) + NewlinesIn(TailAgent)

\* the items of the k-th line of a history file, as readFile stamps them
HistoryItems(path, k) == StampAll(ParseLine(Record(k)).items, path)

C7_LastNPreserved ==
    /\ (mode = "skip" /\ phase = "tick" /\ pc = "select") =>
          \A p \in KnownFiles : \A k \in 1..NewlinesIn(p) : \A i \in 1..2 :
              Count(sent, HistoryItems(p, k)[i]) =
                  IF k > NewlinesIn(p) - 10 THEN 1 ELSE 0
    /\ (mode = "skip" /\ phase = "skip" /\ pc = "select") =>
          \A p \in KnownFiles : NewlinesIn(p) <= 10 => filePositions[p] = 0

(***************************************************************************)
(* Shutdown, checked under SpecLive.                                       *)
(***************************************************************************)
\* C8: Once Stop() has been called on a started watcher, the watch loop
\* eventually returns, whatever the consumer does (it may never receive
\* from Items again).
C8_TerminatesAfterStop == (ctxDone /\ pc # "idle") ~> (pc = "stopped")

\* the watch loop has returned although Items is full and the last read of
\* the main file was abandoned on a send
C8_Witness ==
    /\ pc = "stopped"
    /\ Len(Items) = ItemsCap
    /\ lastRead[TailMain].obs >= 0
    /\ ~lastRead[TailMain].done

(***************************************************************************)
(* Notifications, checked under SpecDisc.                                  *)
(***************************************************************************)
Full(ch) == Len(ch) = NotifyCap

\* C10: A started watch loop that has not returned can always take its next
\* step, except when it waits to send on a full Items channel before
\* shutdown is signalled; and a step leaves a full Errors, NewAgent,
\* NewSession or NewBackgroundTask channel as it is (the send is dropped).
C10_NotifyNeverBlocks ==
    /\ [](pc \notin {"idle", "stopped"} =>
             (ENABLED WatchLoop
                 <=> ~(pc = "send" /\ Len(Items) = ItemsCap /\ ~ctxDone)))
    /\ [][/\ Full(Errors) => Errors' = Errors
          /\ Full(NewAgent) => NewAgent' = NewAgent
          /\ Full(NewSession) => NewSession' = NewSession
          /\ Full(NewBackgroundTask) => NewBackgroundTask' = NewBackgroundTask]_vars

\* a send was dropped on each of the four channels and the loop is back at
\* its select
C10_Witness ==
    /\ dropped = {"Errors", "NewAgent", "NewSession", "NewBackgroundTask"}
    /\ pc = "select"
    /\ ~ctxDone

(***************************************************************************)
(* Notifications and correlation over time, checked under SpecFair.        *)
(***************************************************************************)
\* C11: A session that discovery has put in the registry is eventually
\* announced to the presentation layer (which keeps draining NewSession),
\* also when the send of its notification found the channel full.
C11_DroppedNotificationDelivered ==
    \A s \in SessionIds \ {"s1"} :
        (s \in sessions) ~> ([sid |-> s] \in received)

\* C17: A tracked background task of s1 whose tool-result record is in the
\* main file or in a known subagent file of s1 eventually has its completion
\* flag set.
C17_CompletionRechecked ==
    \A t \in ToolIds :
        (t \in DOMAIN bgTasks["s1"] /\ isBackgroundTaskComplete("s1", t))
            ~> (t \in DOMAIN bgTasks["s1"] /\ bgTasks["s1"][t].complete)

(***************************************************************************)
(* The registry, checked under SpecReg.                                    *)
(***************************************************************************)
\* C12: Whenever the watch loop is back at its select, a session the user
\* has removed is not in the registry.
C12_RemovedStaysOut ==
    pc = "select" => \A s \in SessionIds : removed[s] > 0 => s \notin sessions

\* C13: A step that takes a session id out of the registry is a
\* RemoveSession call for that id.
C13_OnlyRemoveSessionRemoves ==
    [][\A s \in SessionIds :
          (s \in sessions /\ s \notin sessions') => RemoveSession(s)]_vars

\* a poll tick tails session s1 although its main file is inactive, after
\* the user has removed s2
C13_Witness ==
    /\ "s1" \in stale /\ "s1" \in sessions
    /\ removed["s2"] > 0 /\ "s2" \notin sessions
    /\ phase = "tick" /\ pc = "scan" /\ cur = "s1"

\* C14 (as stated): while w.watchActive is false no step adds a session id
\* to the registry.
C14_NoDiscoveryWhileOff ==
    [][~watchActive => sessions' \subseteq sessions]_vars

\* handlePollTick turns to the next session of its snapshot
VisitBegins ==
    /\ phase' = "tick"
    /\ rf' # rf
    /\ rf' = [NoRead EXCEPT !.path = MainFile(cur')]

\* C14 (amended): a poll tick that loaded w.watchActive as false adds no
\* session id to the registry; and every tick, whatever the flag, visits
\* every session of the registry, and for each of them registers the agent
\* files and then the artifacts that are not in its maps before it tails
\* its files.
C14_NoDiscoveryInTickBegunOff ==
    /\ [][~autoAtTick => sessions' \subseteq sessions]_vars
    /\ [][(pc = "select" /\ pc' \notin {"select", "walk"})
             => (sessions # {} /\ cur' \in sessions /\ sessTodo' = sessions \ {cur'})]_vars
    /\ [][(pc = "select" /\ phase' = "tick" /\ ~watchActive /\ sessions # {}
             /\ <<phase, rf, autoAtTick>>' # <<phase, rf, autoAtTick>>)
             => VisitBegins]_vars
    /\ [][VisitBegins =>
             pc' = IF AgentsNew(cur') # {} THEN "check_agents"
                   ELSE IF TasksNew(cur') # {} THEN "check_tasks" ELSE "scan"]_vars
    /\ [][(pc = "check_agents" /\ pc' # pc) =>
             /\ AgentsNew(cur)' = {}
             /\ pc' = IF TasksNew(cur)' # {} THEN "check_tasks" ELSE "scan"]_vars
    /\ [][(pc = "check_tasks" /\ pc' # pc) =>
             (TasksNew(cur)' = {} /\ pc' = "scan")]_vars

\* auto-discovery is off and was off when the last tick began; that tick
\* has registered the subagent and the artifacts of s1 and tailed its
\* files, and the recent main file of s2 is on disk but not in the registry
C14_Witness ==
    /\ ~watchActive /\ ~autoAtTick
    /\ phase = "tick" /\ pc = "select"
    /\ MainFile("s2") \in present /\ "s2" \notin stale
    /\ "s2" \notin sessions /\ removed["s2"] = 0
    /\ "s1" \in sessions
    /\ "a1" \in subagents["s1"]
    /\ DOMAIN bgTasks["s1"] = ToolIds
    /\ lastRead[AgentFile("s1", "a1")].done
    /\ NewSession = <<>>

(***************************************************************************)
(* Construction, checked under SpecNew.                                    *)
(***************************************************************************)
\* the sessions whose main file path contains the id New was called with
Named == {s \in SessionIds : /\ MainFile(s) \in present
                              /\ StringsContains(PathText(s), Text(sessionID))}

\* C15: After New(sessionID): with a non-empty id that the path of some main
\* file contains, a watcher is returned whose registry holds exactly one
\* session, one of those files (the id's own session when no other path
\* contains the id, and an active one when there is one), with
\* auto-discovery off; with a non-empty id that no main file path
\* contains, no watcher is returned; with the empty id a watcher is
\* returned whose registry holds exactly the sessions with a main file
\* modified within the active window, with auto-discovery on.
C15_Construct ==
    pc # "new" =>
        IF sessionID # ""
        THEN IF Named # {}
             THEN /\ pc # "failed"
                  /\ Cardinality(sessions) = 1
                  /\ sessions \subseteq Named
                  /\ Named \ stale # {} => sessions \cap stale = {}
                  /\ ~watchActive
             ELSE pc = "failed" /\ sessions = {}
        ELSE /\ pc # "failed"
             /\ sessions = {s \in SessionIds : MainFile(s) \in present} \ stale
             /\ watchActive

\* New("s1") returned a watcher bound to s1 alone, although the file of s1
\* is outside the active window and the active session s2 exists
C15_Witness ==
    /\ sessionID = "s1" /\ pc = "idle"
    /\ sessions = {"s1"} /\ ~watchActive
    /\ "s1" \in stale
    /\ MainFile("s2") \in present /\ "s2" \notin stale

\* C16: No step sets the completion flag of a tracked background task from
\* true back to false (so the flag of a task changes at most once, from
\* false to true).
C16_CompletionMonotonic ==
    [][\A s \in SessionIds : \A t \in DOMAIN bgTasks[s] \cap DOMAIN bgTasks'[s] :
          bgTasks[s][t].complete => bgTasks'[s][t].complete]_vars

\* a poll tick re-scans session s1, whose task t1 is tracked as complete
\* and whose task t2 as incomplete
C16_Witness ==
    /\ DOMAIN bgTasks["s1"] = ToolIds
    /\ bgTasks["s1"]["t1"].complete
    /\ ~bgTasks["s1"]["t2"].complete
    /\ phase = "tick" /\ pc = "scan" /\ cur = "s1"
    /\ rf.path = MainFile("s1") /\ ~rf.open
    /\ lastRead[AgentFile("s1", "a1")].done

(***************************************************************************)
(* Concurrent correlation, checked under SpecRace.                         *)
(***************************************************************************)
\* C18: For every session and tool id at most one BackgroundTask is ever
\* inserted in the session's map (and so at most one notification is
\* offered for it).
C18_AnnouncedOnce ==
    \A tp \in ToolPaths : inserts[tp] <= 1

(***************************************************************************)
(* Parse errors, checked under SpecErr.                                    *)
(***************************************************************************)
\* this step is a scanner.Scan() of readFile that yields a line
ScanStep ==
    /\ pc = "scan"
    /\ rf'.open
    /\ rf'.path = rf.path
    /\ rf'.scanPos > (IF rf.open THEN rf.scanPos ELSE Pos(rf.path))

\* the line that step yields
Scanned ==
    SubSeq(disk[rf.path], (IF rf.open THEN rf.scanPos ELSE Pos(rf.path)) + 1,
           rf'.scanPos - 1)

\* this step offers one error to Errors: it is sent, or dropped because the
\* channel is full
ErrorOffered ==
    \/ Errors' = Append(Errors, "failed to parse JSON")
    \/ Len(Errors) = NotifyCap /\ Errors' = Errors /\ "Errors" \in dropped'

MalformedJSON(line) == ~IsBlank(line) /\ ~ValidJSON(line)

BadSubstructure(line) ==
    /\ ValidJSON(line)
    /\ line[2] \in {"a", "u"}
    /\ Body(line) = <<BadMessage>>

\* C19: The scan step that yields a line that is not JSON offers one error
\* to Errors, yields no item and goes on scanning; every item put on Items
\* is an event of a well-formed line of its file; and when a pass has read
\* the file to its current end, the recorded offset is the end of the file
\* and each event of every line after the bad one has been put on Items
\* once.
C19_MalformedLineSkipped ==
    /\ [][(ScanStep /\ MalformedJSON(Scanned)) =>
             (ErrorOffered /\ rf'.items = <<>> /\ pc' = "scan" /\ sent' = sent)]_vars
    /\ [](\A i \in 1..Len(sent) :
             \E k \in 1..CompleteLines(FileOf(sent[i])) :
                 \E j \in 1..Len(EventsOfLine(FileOf(sent[i]), k)) :
                     sent[i] = EventsOfLine(FileOf(sent[i]), k)[j])
    /\ []((pc = "select" /\ lastRead[TailMain].done
              /\ lastRead[TailMain].obs = Len(disk[TailMain])) =>
             /\ Pos(TailMain) = Len(disk[TailMain])
             /\ \A k \in 2..CompleteLines(TailMain) :
                   \A j \in 1..Len(EventsOfLine(TailMain, k)) :
                       Count(sent, EventsOfLine(TailMain, k)[j]) = 1)

\* the file began with a line that is not JSON; the error is on Errors, the
\* record appended after it was delivered, and the offset is the end of
\* the file
C19_Witness ==
    /\ MalformedJSON(ScanAll(disk[TailMain], 1)[1])
    /\ CompleteLines(TailMain) = 2
    /\ Errors = <<"failed to parse JSON">>
    /\ pc = "select"
    /\ Pos(TailMain) = Len(disk[TailMain])
    /\ Len(sent) = 2
    /\ \A j \in 1..2 : Count(sent, EventsOfLine(TailMain, 2)[j]) = 1

\* C20: The scan step that yields a line that is JSON of assistant or user
\* kind whose message does not decode offers one error to Errors and yields
\* no item.
C20_SubstructureErrorReported ==
    [][(ScanStep /\ BadSubstructure(Scanned)) =>
          (ErrorOffered /\ rf'.items = <<>>)]_vars

(***************************************************************************)
(* Scanner errors, checked under SpecScan.                                 *)
(***************************************************************************)
\* the scanner of the current readFile stands at offset `from`, before a
\* line whose first ScannerMaxBufferSize bytes hold no newline
TooLongAt(content, from) ==
    /\ Len(content) >= from + ScannerMaxBufferSize
    /\ \A i \in (from + 1)..(from + ScannerMaxBufferSize) : content[i] # NL

\* where the scanner of the current readFile stands, and where the
\* readFile began
ScannerAt == IF rf.open THEN rf.scanPos ELSE Pos(rf.path)
ReadFrom == IF rf.open THEN rf.startOff ELSE Pos(rf.path)

\* this step offers the scanner's error to Errors
ScannerErrorOffered ==
    \/ Errors' = Append(Errors, "scanner error")
    \/ Len(Errors) = NotifyCap /\ Errors' = Errors /\ "Errors" \in dropped'

\* C21: The Scan() of readFile that meets a line longer than the buffer
\* ends the pass over the file: the scanner's error is offered to Errors
\* and the offset recorded for the file is strictly greater than the offset
\* the pass began at, and not beyond the end of the file.
C21_ScanErrorAdvances ==
    [][(pc = "scan" /\ rf.path \in present /\ TooLongAt(disk[rf.path], ScannerAt)
          /\ rf' # rf) =>
          /\ ScannerErrorOffered
          /\ rf.path \in DOMAIN filePositions'
          /\ filePositions'[rf.path] > ReadFrom
          /\ filePositions'[rf.path] <= Len(disk[rf.path])]_vars

\* a pass met the long line at the start of the file: the error is on
\* Errors, the offset is inside the line, and the loop waits for a tick
C21_Witness ==
    /\ disk[TailMain] = LongLine(ScannerMaxBufferSize + 1) \o <<NL>>
    /\ Errors = <<"scanner error">>
    /\ Pos(TailMain) = ScannerMaxBufferSize
    /\ pc = "select"

(***************************************************************************)
(* The parser, checked under SpecParse.                                    *)
(***************************************************************************)
Parsed == call.fn = "ParseLine"

\* the blocks of the line ParseLine was called on, when it is a record
\* whose message decodes
BlocksOf(line) == Unmarshal(line).content

Decodes(line) == ValidJSON(line) /\ Body(line) # <<BadMessage>>

\* the contents of the items of one type, in order
ContentsOf(items, typ) ==
    LET sel == SelectSeq(items, LAMBDA it : it.type = typ)
    IN  [i \in 1..Len(sel) |-> sel[i].content]

\* the payloads of the blocks of one kind with a non-empty payload, in order
NonEmptyOf(blocks, kind) ==
    LET sel == SelectSeq(blocks, LAMBDA b : b.type = kind /\ b.text # "")
    IN  [i \in 1..Len(sel) |-> sel[i].text]

\* C26: On a well-formed assistant line ParseLine returns no error and one
\* thinking event for each thinking block with a non-empty text, in order,
\* with that text as content; a thinking block with an empty text yields
\* no event.
C26_ThinkingEvents ==
    (Parsed /\ Decodes(call.line) /\ call.line[2] = "a") =>
        /\ ~call.err
        /\ ContentsOf(call.items, "thinking") = NonEmptyOf(BlocksOf(call.line), "T")

\* a line with an empty and a non-empty thinking block gave one event
C26_Witness ==
    /\ Parsed
    /\ call.line = <<"{", "a", "T", "", "T", "x", "}">>
    /\ Len(call.items) = 1
    /\ call.items[1].type = "thinking" /\ call.items[1].content = "x"

\* C27: On a line that is not blank and not JSON ParseLine returns an error
\* and no event; on an empty or whitespace-only line it returns no error
\* and no event.
C27_MalformedAndBlank ==
    Parsed =>
        /\ (\A i \in 1..Len(call.line) : call.line[i] = " ") =>
               (~call.err /\ call.items = <<>>)
        /\ ((\E i \in 1..Len(call.line) : call.line[i] # " ") /\ ~ValidJSON(call.line)) =>
               (call.err /\ call.items = <<>>)

\* ParseLine was called on a whitespace-only line
C27_Witness ==
    /\ Parsed
    /\ call.line = <<" ", " ">>
    /\ ~call.err

\* the texts joined by newlines
RECURSIVE JoinNL(_)
JoinNL(texts) ==
    IF Len(texts) <= 1 THEN texts
    ELSE <<Head(texts), NL>> \o JoinNL(Tail(texts))

\* C28: On a user record with one tool-result block ParseLine returns one
\* tool-result event: for an array content its content is the text
\* sub-blocks joined by newlines, for a string content it is that string.
C28_ToolResultContent ==
    (Parsed /\ Decodes(call.line) /\ call.line[2] = "u" /\ Len(BlocksOf(call.line)) = 1) =>
        LET b == BlocksOf(call.line)[1]
        IN  /\ b.type = "R" =>
                  /\ Len(call.items) = 1
                  /\ call.items[1].type = "tool_output"
                  /\ call.items[1].content = b.text
            /\ b.type = "M" =>
                  /\ Len(call.items) = 1
                  /\ call.items[1].type = "tool_output"
                  /\ call.items[1].content = JoinNL(SubBlocks(b.text))

\* C29: On a record whose type is neither assistant nor user ParseLine
\* returns no event and no error; on an assistant record a block of an
\* unknown type yields no event and the other blocks yield theirs.
C29_UnknownKinds ==
    (Parsed /\ ValidJSON(call.line)) =>
        /\ call.line[2] \notin {"a", "u"} => (~call.err /\ call.items = <<>>)
        /\ (call.line[2] = "a" /\ Decodes(call.line)) =>
              /\ ~call.err
              /\ ContentsOf(call.items, "thinking") = NonEmptyOf(BlocksOf(call.line), "T")
              /\ ContentsOf(call.items, "text") = NonEmptyOf(BlocksOf(call.line), "X")
              /\ Len(call.items) =
                    Len(SelectSeq(BlocksOf(call.line),
                                  LAMBDA b : \/ b.type = "U"
                                             \/ b.type \in {"T", "X"} /\ b.text # ""))

\* an assistant record with an unknown block before a text block gave the
\* text event
C29_Witness ==
    /\ Parsed
    /\ call.line = <<"{", "a", "?", "x", "X", "y", "}">>
    /\ Len(call.items) = 1
    /\ call.items[1].type = "text" /\ call.items[1].content = "y"

(***************************************************************************)
(* The project-path resolver, checked under SpecResolve.                   *)
(***************************************************************************)
Resolved == call.fn = "resolveProjectPath"

\* the encoded name without its leading delimiter
Stripped == IF call.encoded # <<>> /\ call.encoded[1] = "-"
            THEN SubSeq(call.encoded, 2, Len(call.encoded))
            ELSE call.encoded

\* no way of cutting the name into a path and a last segment exists on disk
NoCandidateExists ==
    \A j \in 1..(Len(Split(Stripped)) - 1) :
        ~Stat(<<"/">> \o Candidate(Split(Stripped), j), call.existing)

\* C30: When no candidate path exists on disk, resolveProjectPath returns
\* the encoded name without its leading delimiter and with every other
\* delimiter replaced by a path separator; for the encoded names "" and "-"
\* it returns the empty string.
C30_NaiveFallback ==
    Resolved =>
        /\ call.encoded \in {<<>>, <<"-">>} => call.result = <<>>
        /\ NoCandidateExists =>
              /\ Len(call.result) = Len(Stripped)
              /\ \A i \in 1..Len(Stripped) :
                    call.result[i] = IF Stripped[i] = "-" THEN "/" ELSE Stripped[i]

\* "-a-b" resolved to "a/b" with no such directory on disk
C30_Witness ==
    /\ Resolved
    /\ call.encoded = <<"-", "a", "-", "b">>
    /\ call.existing = {}
    /\ call.result = <<"a", "/", "b">>

(***************************************************************************)
(* Debounce, checked under SpecPush.                                       *)
(***************************************************************************)
\* the debounce tasks that are in readFile(p)
ActiveOn(p) == {i \in 1..MaxTasks : tasks[i].state # "free" /\ tasks[i].path = p}

Pending(p) == p \in DOMAIN debounceTimers /\ debounceTimers[p] = "pending"

\* the writes to p have settled: nothing is being written, every write has
\* been notified and handled, no timer of p is pending and no task reads p
Settled(p) ==
    /\ inflight[p] = <<>>
    /\ notified.len[p] = Len(disk[p])
    /\ \A k \in 1..Len(events) : events[k].path # p
    /\ ~Pending(p)
    /\ ActiveOn(p) = {}

\* C22: A write notification handled while the timer of its path is pending
\* starts no tail pass and leaves the path with one pending timer; no more
\* passes start than bursts were handled; and once the writes of a single
\* burst have settled (the watcher not stopped), one pass has run, each
\* event of every appended line has been put on Items exactly once, and no
\* timer is registered for the path.
C22_DebounceCoalesces ==
    /\ [][\A p \in LogPaths :
             (Pending(p) /\ pushed'[p].notes > pushed[p].notes) =>
                 /\ pushed'[p].fires = pushed[p].fires
                 /\ pushed'[p].bursts = pushed[p].bursts
                 /\ tasks' = tasks
                 /\ p \in DOMAIN debounceTimers' /\ debounceTimers'[p] = "pending"]_vars
    /\ [](\A p \in LogPaths : pushed[p].fires <= pushed[p].bursts)
    /\ [](\A p \in LogPaths :
             (~ctxDone /\ Settled(p) /\ pushed[p].bursts = 1) =>
                 /\ pushed[p].fires = 1
                 /\ p \notin DOMAIN debounceTimers
                 /\ \A k \in 1..CompleteLines(p) :
                       \A j \in 1..Len(EventsOfLine(p, k)) :
                           Count(sent, EventsOfLine(p, k)[j]) = 1
                 /\ Len(SelectSeq(sent, LAMBDA it : FileOf(it) = p))
                       = 2 * CompleteLines(p))

\* two write notifications were coalesced into one pass that delivered the
\* four events of the two appended lines
C22_Witness ==
    /\ ~ctxDone
    /\ Settled(TailMain)
    /\ pushed[TailMain] = [notes |-> 2, bursts |-> 1, fires |-> 1]
    /\ CompleteLines(TailMain) = 2
    /\ Len(sent) = 4
    /\ debounceTimers = <<>>

\* C23: At no time are two debounce tasks in readFile for the same path.
C23_NoOverlap == \A p \in LogPaths : Cardinality(ActiveOn(p)) <= 1

Handled(x) ==
    /\ x # TailMain
    /\ x \in notified.made
    /\ \A i \in 1..Len(events) : events[i] # [op |-> "create", path |-> x]

Range(ch) == {ch[i] : i \in 1..Len(ch)}

\* msg was offered on the channel: it waits there, was received, or found
\* the channel full
Offered(ch, name, msg) ==
    msg \in Range(ch) \/ msg \in received \/ name \in dropped

\* the watch loop is back at its select and was not cancelled
AtSelect == pc = "events" /\ ~ctxDone

\* C25: In push mode, once the watch loop (not cancelled) has handled the
\* create notification of a file, then: a main session file, with
\* auto-discovery on, is in the registry, was offered on NewSession under
\* the id of its file name, and is watched; an agent file of a known session
\* is in that session's subagent map, was offered on NewAgent under its
\* session and agent id, and is watched; an artifact of a known session is
\* in that session's background-task map and was offered on
\* NewBackgroundTask under its session and tool id.  (A notification that
\* finds its channel full is dropped.)  And the writes to a file discovered
\* so are tailed: once a write notification for it was handled and its
\* writes have settled, every event of every line of the file was put on
\* Items.
C25_CreateLeadsToDiscovery ==
    /\ [](AtSelect =>
            /\ \A s \in SessionIds :
                  (watchActive /\ Handled(MainFile(s))) =>
                      /\ s \in sessions
                      /\ Offered(NewSession, "NewSession", [sid |-> s])
                      /\ MainFile(s) \in fileContexts
            /\ \A s \in sessions : \A a \in AgentIds :
                  Handled(AgentFile(s, a)) =>
                      /\ a \in subagents[s]
                      /\ Offered(NewAgent, "NewAgent", [sid |-> s, aid |-> a])
                      /\ AgentFile(s, a) \in fileContexts
            /\ \A s \in sessions : \A t \in ToolIds :
                  Handled(<<s, t>>) =>
                      /\ t \in DOMAIN bgTasks[s]
                      /\ \/ \E m \in Range(NewBackgroundTask) :
                               m.sid = s /\ m.tool = t
                         \/ "NewBackgroundTask" \in dropped)
    /\ [](\A s \in sessions : \A a \in AgentIds :
            LET p == AgentFile(s, a)
            IN  (~ctxDone /\ Handled(p) /\ pushed[p].notes > 0 /\ Settled(p)) =>
                    \A k \in 1..CompleteLines(p) :
                       \A j \in 1..Len(EventsOfLine(p, k)) :
                           Count(sent, EventsOfLine(p, k)[j]) >= 1)

\* with auto-discovery on, the create notifications of session s2, of the
\* agent file a1 of s1 and of the artifacts of s1 were handled; a1 then
\* appended a line and the events of both lines of its file were delivered
C25_Witness ==
    /\ AtSelect
    /\ watchActive
    /\ Handled(MainFile("s2"))
    /\ Handled(TailAgent)
    /\ Handled(<<"s1", "t1">>)
    /\ [sid |-> "s2"] \in received
    /\ [sid |-> "s1", aid |-> "a1"] \in received
    /\ DOMAIN bgTasks["s1"] = ToolIds
    /\ Settled(TailAgent)
    /\ CompleteLines(TailAgent) = 2
    /\ \A k \in 1..2 : \A j \in 1..Len(EventsOfLine(TailAgent, k)) :
          Count(sent, EventsOfLine(TailAgent, k)[j]) = 1

(***************************************************************************)
(* The debounce table, checked under SpecCreate.                           *)
(***************************************************************************)
\* this step is the watch loop receiving a write notification for p
WriteReceived(p) ==
    /\ pc = "events"
    /\ events # <<>>
    /\ Head(events) = [op |-> "write", path |-> p]
    /\ events' = Tail(events)

ExistingSplits ==
    {j \in 1..(Len(Split(Stripped)) - 1) :
        Stat(<<"/">> \o Candidate(Split(Stripped), j), call.existing)}

\* C35: When a candidate of the encoded name exists on disk,
\* resolveProjectPath returns (without the leading separator) the existing
\* candidate of the rightmost split point, the one that joins the fewest
\* trailing segments with the delimiter: no candidate of a split point
\* further right exists.
C35_RightmostExisting ==
    (Resolved /\ ExistingSplits # {}) =>
        \E j \in ExistingSplits :
            /\ call.result = Candidate(Split(Stripped), j)
            /\ \A k \in (j + 1)..(Len(Split(Stripped)) - 1) : k \notin ExistingSplits

\* "a-a-b" with both "/a/a/b" and "/a/a-b" on disk resolved to "a/a/b"
C35_Witness ==
    /\ Resolved
    /\ call.encoded = <<"a", "-", "a", "-", "b">>
    /\ ExistingSplits = {1, 2}
    /\ call.result = <<"a", "/", "a", "/", "b">>

(***************************************************************************)
(* Offset cleanup, checked under SpecClean.                                *)
(***************************************************************************)
\* this step is readFile opening p and seeking to its recorded offset
ReadBegins(p) == pc = "scan" /\ rf.path = p /\ ~rf.open /\ rf'.open

\* the item of the record the agent file holds when it is created again
RecreatedItem == StampAll(ParseLine(SubSeq(Created(TailAgent), 1, 5)).items, TailAgent)[1]

\* C36: A cleanup pass leaves in the offset table exactly the entries of
\* the paths whose file exists, each with the offset it had.  A readFile of
\* a path without an entry starts at byte 0; and once a pass has read the
\* agent file that was created again (its offset is the length of the new
\* file), the record of the new file has been put on Items.
C36_CleanupPrunesStale ==
    /\ [][CleanupFilePositions =>
            /\ DOMAIN filePositions' = DOMAIN filePositions \cap present
            /\ \A p \in DOMAIN filePositions' : filePositions'[p] = filePositions[p]]_vars
    /\ [][\A p \in LogPaths :
            (ReadBegins(p) /\ p \notin DOMAIN filePositions) => rf'.startOff = 0]_vars
    /\ []((/\ TailAgent \in present
           /\ disk[TailAgent] = Created(TailAgent)
           /\ TailAgent \in DOMAIN filePositions
           /\ filePositions[TailAgent] = Len(Created(TailAgent)))
          => Count(sent, RecreatedItem) >= 1)

\* the offset of the deleted agent file was pruned while the offset of the
\* main file stayed, the file was created again and its record delivered
C36_Witness ==
    /\ pc = "select"
    /\ disk[TailAgent] = Created(TailAgent)
    /\ TailAgent \in present
    /\ Pos(TailAgent) = Len(Created(TailAgent))
    /\ TailMain \in DOMAIN filePositions
    /\ Count(sent, RecreatedItem) = 1
    /\ Len(sent) = 3

(***************************************************************************)
(* Abandoned passes, checked under Spec.                                   *)
(***************************************************************************)
\* this step is readFile returning from its select on ctx.Done()
Abandoned == pc = "send" /\ sent' = sent /\ rf' # rf

\* the offset at which the k-th line of a file begins
LineStart(path, k) == IF k = 1 THEN 0 ELSE LineEnd(path, k - 1)

\* C38: The step in which readFile abandons a send because shutdown was
\* signalled leaves the offset table as it is; the offset of the file is
\* the one the pass started from, and every item the pass did not deliver
\* comes from a line that begins at or after that offset.
C38_AbandonKeepsOffset ==
    [][Abandoned =>
          /\ filePositions' = filePositions
          /\ Pos(rf.path) = rf.startOff
          /\ \A i \in 1..Len(rf.items) :
                LineStart(rf.path, LineOf(rf.items[i])) >= Pos(rf.path)]_vars

\* a pass over the main file read a line and was abandoned after Stop(); the
\* recorded offset is still the one from before the pass
C38_Witness ==
    /\ ctxDone
    /\ lastRead[TailMain].done = FALSE
    /\ lastRead[TailMain].obs > Pos(TailMain)
    /\ pc = "stopped"

(***************************************************************************)
(* Removal and the offset table, checked under SpecReg.                    *)
(***************************************************************************)
\* C39: A step that takes a session out of the registry leaves the offset
\* table as it is; no recorded offset ever decreases; and no item is put on
\* Items twice, also when the session is removed and registered again by
\* discovery.
C39_RemoveKeepsOffsets ==
    /\ [][(\E s \in sessions : s \notin sessions') =>
             filePositions' = filePositions]_vars
    /\ [][\A p \in LogPaths : Pos(p)' >= Pos(p)]_vars
    /\ [](\A i, j \in 1..Len(sent) : sent[i] = sent[j] => i = j)

\* s1 was removed and discovery registered it again; its main file had
\* been read to its end, and a pass of a poll tick is about to read it from
\* the offset that was kept
C39_Witness ==
    /\ removed["s1"] > 0
    /\ "s1" \in sessions
    /\ phase = "tick"
    /\ pc = "scan" /\ cur = "s1"
    /\ rf.path = TailMain /\ ~rf.open
    /\ TailMain \in DOMAIN filePositions
    /\ filePositions[TailMain] = Len(disk[TailMain])
    /\ Len(sent) >= 1

(***************************************************************************)
(* Files discovered after startup, checked under SpecLate.                 *)
(***************************************************************************)
\* the log files that are registered and were not known at the initial pass
LateFiles == UNION {FilesOf(s) : s \in sessions} \ {TailMain}

\* C40: Whether or not the initial pass skipped history, a file that was
\* not known at the initial pass has no recorded offset until it has been
\* read: the first readFile of it starts at byte 0, and when the poll tick
\* that registered it is over, its offset is the length of the file and
\* every event of every line of it has been put on Items once.
C40_LateFilesFromZero ==
    /\ [](\A p \in DOMAIN filePositions \ {TailMain} :
             p \in LateFiles /\ lastRead[p].done)
    /\ [][\A p \in LogPaths \ {TailMain} :
             (ReadBegins(p) /\ ~lastRead[p].done) => rf'.startOff = 0]_vars
    /\ []((pc = "select" /\ phase = "tick") =>
             \A p \in LateFiles :
                /\ p \in DOMAIN filePositions
                /\ filePositions[p] = Len(disk[p])
                /\ \A k \in 1..CompleteLines(p) :
                      \A j \in 1..Len(EventsOfLine(p, k)) :
                          Count(sent, EventsOfLine(p, k)[j]) = 1)

\* the initial pass skipped (101 lines, no request); session s2 and the
\* subagent a1 of s1 appeared afterwards and the tick that found them has
\* delivered the records of both files
C40_Witness ==
    /\ mode = "skip"
    /\ ~skipHistory
    /\ pc = "select" /\ phase = "tick"
    /\ LateFiles = {MainFile("s2"), TailAgent}
    /\ Count(sent, EventsOfLine(TailAgent, 1)[1]) = 1
    /\ Count(sent, EventsOfLine(MainFile("s2"), 1)[1]) = 1


(***************************************************************************)
(* The locks.  Each function of the watcher that takes a lock is the       *)
(* sequence of its lock operations, its file-system calls and its registry *)
(* operations, in program order; a goroutine runs one function at a time,  *)
(* one operation per step.  The session whose mu is modelled is s1, the    *)
(* session discovery finds is s2.                                          *)
(***************************************************************************)

\* the earlier discovery: the check under the read lock, the insert under
\* the write lock, the registry free in between
C31_CheckThenInsert ==
    << <<"io", "filepath.Walk">>,
       <<"RLock", "sessionsMu">>, <<"check">>, <<"RUnlock", "sessionsMu">>,
       <<"ifExists", 11>>,                    \* past the end: the return
       <<"io", "os.ReadDir">>,
       <<"Lock", "sessionsMu">>, <<"insert">>, <<"Unlock", "sessionsMu">>,
       <<"notify">> >>

\* checkForNewSessions, for the main file of s2: the callback of the walk
checkForNewSessionsOps ==
    << <<"io", "filepath.Walk">>,
       <<"Lock", "sessionsMu">>, <<"check">>, <<"ifExists", 10>>,
       <<"io", "os.ReadDir">>,                \* buildSession
       <<"insert">>, <<"Unlock", "sessionsMu">>,
       <<"notify">>, <<"return">>,
       <<"Unlock", "sessionsMu">> >>          \* the session exists

\* getSessionsSnapshot and GetSessions: a copy under the read lock
getSessionsSnapshotOps == << <<"RLock", "sessionsMu">>, <<"RUnlock", "sessionsMu">> >>
GetSessionsOps == << <<"RLock", "sessionsMu">>, <<"RUnlock", "sessionsMu">> >>

\* a discovery of subagents that registers the session while it holds its mu
C37_SubagentsLockRegistry ==
    << <<"io", "os.ReadDir">>,
       <<"Lock", "mu">>,
       <<"Lock", "sessionsMu">>, <<"Unlock", "sessionsMu">>,
       <<"Unlock", "mu">> >>

\* checkForNewSubagents: the directory is read, then each entry is checked
\* and inserted under the session's write lock
checkForNewSubagentsOps ==
    << <<"io", "os.ReadDir">>, <<"Lock", "mu">>, <<"Unlock", "mu">> >>

\* checkForBackgroundTasks with findBackgroundTaskParent and
\* isBackgroundTaskComplete, for one artifact that is not yet known
checkForBackgroundTasksOps ==
    << <<"io", "os.ReadDir">>,
       <<"RLock", "mu">>, <<"RUnlock", "mu">>,
       <<"io", "findToolInFile">>,               \* the main file
       <<"RLock", "mu">>, <<"io", "findToolInFile">>, <<"RUnlock", "mu">>,
       <<"io", "fileContainsToolResult">>,       \* the main file
       <<"RLock", "mu">>, <<"io", "fileContainsToolResult">>, <<"RUnlock", "mu">>,
       <<"Lock", "mu">>, <<"Unlock", "mu">> >>

\* readFile: the offset is read under the read lock and written under the
\* write lock, the file is read in between
readFileOps ==
    << <<"io", "os.Open">>,
       <<"RLock", "filePosMu">>, <<"RUnlock", "filePosMu">>,
       <<"io", "Scan">>,
       <<"Lock", "filePosMu">>, <<"Unlock", "filePosMu">> >>

\* readSessionFiles: the main file, a copy of the subagents, one subagent
readSessionFilesOps ==
    readFileOps \o << <<"RLock", "mu">>, <<"RUnlock", "mu">> >> \o readFileOps

\* cleanupFilePositions: every recorded path is looked up under the lock
cleanupFilePositionsOps ==
    << <<"Lock", "filePosMu">>, <<"io", "os.Stat">>, <<"Unlock", "filePosMu">> >>

\* skipToEndOfFiles, for the main file and the copied subagents
skipToEndOfFilesOps ==
    << <<"io", "os.Stat">>,
       <<"RLock", "mu">>, <<"RUnlock", "mu">>,
       <<"io", "os.Stat">>,
       <<"Lock", "filePosMu">>, <<"Unlock", "filePosMu">> >>

\* countTotalLines: the subagent files are counted under the session's lock
countTotalLinesOps ==
    << <<"io", "countFileLines">>,
       <<"RLock", "mu">>, <<"io", "countFileLines">>, <<"RUnlock", "mu">> >>

\* GetActivityInfo: the registry's read lock is held to the return, each
\* session's mu is taken inside it, the files are looked up under both
GetActivityInfoOps ==
    << <<"RLock", "sessionsMu">>,
       <<"io", "os.Stat">>,
       <<"RLock", "mu">>, <<"io", "os.Stat">>, <<"RUnlock", "mu">>,
       <<"RUnlock", "sessionsMu">> >>

\* RemoveSession, of s2
RemoveSessionOps == << <<"Lock", "sessionsMu">>, <<"delete">>, <<"Unlock", "sessionsMu">> >>

\* ToggleAutoDiscovery: the flag is atomic, no lock is taken
ToggleAutoDiscoveryOps == << <<"toggle">> >>

Program(fn) ==
    CASE fn = "checkForNewSessions" -> checkForNewSessionsOps
      [] fn = "getSessionsSnapshot" -> getSessionsSnapshotOps
      [] fn = "checkForNewSubagents" -> checkForNewSubagentsOps
      [] fn = "checkForBackgroundTasks" -> checkForBackgroundTasksOps
      [] fn = "readFile" -> readFileOps
      [] fn = "readSessionFiles" -> readSessionFilesOps
      [] fn = "cleanupFilePositions" -> cleanupFilePositionsOps
      [] fn = "skipToEndOfFiles" -> skipToEndOfFilesOps
      [] fn = "countTotalLines" -> countTotalLinesOps
      [] fn = "GetSessions" -> GetSessionsOps
      [] fn = "GetActivityInfo" -> GetActivityInfoOps
      [] fn = "RemoveSession" -> RemoveSessionOps
      [] fn = "ToggleAutoDiscovery" -> ToggleAutoDiscoveryOps

\* what each goroutine calls: the watch loop its passes, the handler the
\* discovery of a create event and the read of a debounce task, the
\* presentation layer the control surface
Functions(g) ==
    CASE g = "loop" -> {"checkForNewSessions", "getSessionsSnapshot",
                        "checkForNewSubagents", "checkForBackgroundTasks",
                        "readSessionFiles", "cleanupFilePositions",
                        "skipToEndOfFiles", "countTotalLines"}
      [] g = "handler" -> {"checkForNewSessions", "checkForNewSubagents", "readFile"}
      [] g = "ui" -> {"GetSessions", "GetActivityInfo", "RemoveSession",
                      "ToggleAutoDiscovery"}

Running(g) == goroutines[g].fn # ""
Op(g) == Program(goroutines[g].fn)[goroutines[g].ip]
AtOp(g, kinds) == Running(g) /\ Op(g)[1] \in kinds

\* the locks a goroutine holds
Held(g) ==
    {l \in LockNames : g \in locks[l].readers
                         \/ (locks[l].writer = g /\ locks[l].active)}

\* the goroutine after the operation it is at: the next one, or the return
Forward(g) ==
    IF goroutines[g].ip = Len(Program(goroutines[g].fn)) THEN Returned
    ELSE [goroutines[g] EXCEPT !.ip = @ + 1]

lockRest == <<fsVars, subagents, bgTasks, filePositions, Items, Errors, NewAgent,
              NewBackgroundTask, ctxDone, skipHistory, loopVars, sent,
              partialParsed, lastRead, mode, autoAtTick, inserts, sessionID,
              received, hpc, htool, pureVars, pushVars>>

\* a goroutine enters one of its functions; discovery runs while
\* auto-discovery is on
LockCall(g) ==
    /\ ~Running(g)
    /\ \E fn \in Functions(g) :
          /\ fn = "checkForNewSessions" => watchActive
          /\ fn = "RemoveSession" => removed["s2"] < MaxRemoves
          /\ goroutines' = [goroutines EXCEPT
                               ![g] = [fn |-> fn, ip |-> 1, exists |-> FALSE]]
    /\ UNCHANGED <<lockRest, sessions, NewSession, dropped, watchActive, removed,
                   locks, registered>>

\* RLock and Lock of sync.RWMutex: a reader enters unless a writer holds or
\* awaits the lock; a writer first excludes the other writers and the new
\* readers, then enters once the readers it found have left
Acquire(g) ==
    /\ AtOp(g, {"RLock", "Lock"})
    /\ LET l == Op(g)[2]
           m == locks[l]
       IN  IF Op(g)[1] = "RLock"
           THEN IF g \in m.readers
                THEN /\ goroutines' = [goroutines EXCEPT ![g] = Forward(g)]
                     /\ UNCHANGED locks
                ELSE /\ g \notin m.blocked
                     /\ IF m.writer = ""
                        THEN /\ locks' = [locks EXCEPT ![l].readers = @ \cup {g}]
                             /\ goroutines' = [goroutines EXCEPT ![g] = Forward(g)]
                        ELSE /\ locks' = [locks EXCEPT ![l].blocked = @ \cup {g}]
                             /\ UNCHANGED goroutines
           ELSE IF m.writer = g
                THEN /\ m.readers = {}
                     /\ locks' = [locks EXCEPT ![l].active = TRUE]
                     /\ goroutines' = [goroutines EXCEPT ![g] = Forward(g)]
                ELSE /\ m.writer = ""
                     /\ locks' = [locks EXCEPT ![l].writer = g]
                     /\ UNCHANGED goroutines
    /\ UNCHANGED <<lockRest, sessions, NewSession, dropped, watchActive, removed,
                   registered>>

\* RUnlock and Unlock: a leaving writer admits the readers it blocked
Release(g) ==
    /\ AtOp(g, {"RUnlock", "Unlock"})
    /\ LET l == Op(g)[2]
       IN  locks' = [locks EXCEPT
                        ![l] = IF Op(g)[1] = "RUnlock"
                               THEN [@ EXCEPT !.readers = @ \ {g}]
                               ELSE [writer |-> "", active |-> FALSE,
                                     readers |-> @.blocked, blocked |-> {}]]
    /\ goroutines' = [goroutines EXCEPT ![g] = Forward(g)]
    /\ UNCHANGED <<lockRest, sessions, NewSession, dropped, watchActive, removed,
                   registered>>

\* a call into the file system
SystemCall(g) ==
    /\ AtOp(g, {"io"})
    /\ goroutines' = [goroutines EXCEPT ![g] = Forward(g)]
    /\ UNCHANGED <<lockRest, sessions, NewSession, dropped, watchActive, removed,
                   locks, registered>>

\* _, exists := w.sessions[id], the branch on it, and the early return
Branch(g) ==
    /\ AtOp(g, {"check", "ifExists", "return"})
    /\ goroutines' = [goroutines EXCEPT ![g] =
          CASE Op(g)[1] = "check" -> [Forward(g) EXCEPT !.exists = "s2" \in sessions]
            [] Op(g)[1] = "ifExists" ->
                  IF goroutines[g].exists
                  THEN IF Op(g)[2] > Len(Program(goroutines[g].fn)) THEN Returned
                       ELSE [goroutines[g] EXCEPT !.ip = Op(g)[2]]
                  ELSE Forward(g)
            [] Op(g)[1] = "return" -> Returned]
    /\ UNCHANGED <<lockRest, sessions, NewSession, dropped, watchActive, removed,
                   locks, registered>>

\* w.sessions[session.ID] = session
Insert(g) ==
    /\ AtOp(g, {"insert"})
    /\ sessions' = sessions \cup {"s2"}
    /\ registered' = [registered EXCEPT !.ins = @ + 1]
    /\ goroutines' = [goroutines EXCEPT ![g] = Forward(g)]
    /\ UNCHANGED <<lockRest, NewSession, dropped, watchActive, removed, locks>>

\* the non-blocking send on NewSession
Notify(g) ==
    /\ AtOp(g, {"notify"})
    /\ NewSession' = TrySend(NewSession, [sid |-> "s2"])
    /\ dropped' = Drops(NewSession, "NewSession")
    /\ registered' = [registered EXCEPT !.notes = @ + 1]
    /\ goroutines' = [goroutines EXCEPT ![g] = Forward(g)]
    /\ UNCHANGED <<lockRest, sessions, watchActive, removed, locks>>

\* delete(w.sessions, sessionID)
Delete(g) ==
    /\ AtOp(g, {"delete"})
    /\ sessions' = sessions \ {"s2"}
    /\ removed' = [removed EXCEPT !["s2"] = IF "s2" \in sessions THEN @ + 1 ELSE @]
    /\ goroutines' = [goroutines EXCEPT ![g] = Forward(g)]
    /\ UNCHANGED <<lockRest, NewSession, dropped, watchActive, locks, registered>>

\* w.watchActive.Store(!w.watchActive.Load())
Toggle(g) ==
    /\ AtOp(g, {"toggle"})
    /\ watchActive' = ~watchActive
    /\ goroutines' = [goroutines EXCEPT ![g] = Forward(g)]
    /\ UNCHANGED <<lockRest, sessions, NewSession, dropped, removed, locks,
                   registered>>

\* s1 is watched with one subagent, the main file of s2 has appeared
LockInit ==
    Constructed((TailMain :> <<>>) @@ (TailAgent :> <<>>)
                    @@ (MainFile("s2") :> <<>>), {}, {"s1"}, TRUE, FALSE)

\* what a goroutine does inside a function
Run(g) ==
    \/ Acquire(g)
    \/ Release(g)
    \/ SystemCall(g)
    \/ Branch(g)
    \/ Insert(g)
    \/ Notify(g)
    \/ Delete(g)
    \/ Toggle(g)

LockNext ==
    \/ \E g \in Goroutines : LockCall(g)
    \/ \E g \in Goroutines : Acquire(g)
    \/ \E g \in Goroutines : Release(g)
    \/ \E g \in Goroutines : SystemCall(g)
    \/ \E g \in Goroutines : Branch(g)
    \/ \E g \in Goroutines : Insert(g)
    \/ \E g \in Goroutines : Notify(g)
    \/ \E g \in Goroutines : Delete(g)
    \/ \E g \in Goroutines : Toggle(g)

SpecLock == LockInit /\ [][LockNext]_vars


\* the goroutines under Go's scheduler: a goroutine inside a function keeps
\* running, and one that waits for a lock which is released again and again
\* gets it (sync.Mutex hands the lock to a starving waiter, sync.RWMutex
\* holds new readers back for a waiting writer); nothing obliges a goroutine
\* to call
Callers == {"loop", "ui"}

\* the watch loop and the calls of the control surface, interleaved
CallersNext ==
    \/ \E g \in Callers : LockCall(g)
    \/ \E g \in Callers : Acquire(g)
    \/ \E g \in Callers : Release(g)
    \/ \E g \in Callers : SystemCall(g)
    \/ \E g \in Callers : Branch(g)
    \/ \E g \in Callers : Insert(g)
    \/ \E g \in Callers : Notify(g)
    \/ \E g \in Callers : Delete(g)
    \/ \E g \in Callers : Toggle(g)

SpecLockFair ==
    LockInit /\ [][CallersNext]_vars /\ \A g \in Callers : SF_vars(Run(g))

\* C32: the locks are never nested: every goroutine holds at most one of
\* w.sessionsMu, w.filePosMu and a session's mu
C32_LocksNeverNested == \A g \in Goroutines : Cardinality(Held(g)) <= 1

\* C33: no lock is held across a file-system call: a goroutine that is at an
\* open, read, stat or directory listing holds no lock
C33_NoLockAcrossIO == \A g \in Goroutines : AtOp(g, {"io"}) => Held(g) = {}


\* C31: the check and the insert of a new session are one critical section:
\* however the discovery passes that see the main file of s2 interleave, the
\* session is inserted once (once more after each removal) and a
\* notification is offered for an insert only
C31_InsertedOnce ==
    /\ registered.ins <= removed["s2"] + 1
    /\ registered.notes <= registered.ins
    /\ "s2" \in sessions => registered.ins >= 1

\* two passes overlap: the loop has inserted s2 and is about to notify, the
\* handler has then found s2 in the registry
C31_Witness ==
    /\ goroutines["loop"].fn = "checkForNewSessions"
    /\ AtOp("loop", {"notify"})
    /\ goroutines["handler"].fn = "checkForNewSessions"
    /\ AtOp("handler", {"ifExists"})
    /\ goroutines["handler"].exists
    /\ registered.ins = 1


\* C37: the locking is free of deadlock: a goroutine that requests
\* w.sessionsMu, w.filePosMu or a session's mu gets to hold it
C37_EveryRequestGranted ==
    \A g \in Goroutines : \A l \in LockNames :
        (AtOp(g, {"RLock", "Lock"}) /\ Op(g)[2] = l) ~> (l \in Held(g))

\* the presentation layer waits in GetActivityInfo, inside the registry's
\* read lock, for the mu the watch loop holds for writing
C37_Witness ==
    /\ goroutines["ui"].fn = "GetActivityInfo"
    /\ "ui" \in locks["sessionsMu"].readers
    /\ "ui" \in locks["mu"].blocked
    /\ locks["mu"].writer = "loop" /\ locks["mu"].active

=============================================================================
